---------------------------- MODULE Spec2Model ----------------------------
(***************************************************************************)
(* Model of the learning-resource scraper service                          *)
(* (src/crewai_scraper_service): the /scrape_resources request handler     *)
(* with its five concurrent fetcher tasks, and the evaluation agent that   *)
(* scores, filters and ranks the merged candidates.                        *)
(*                                                                         *)
(* Python strings are sequences of one-character strings, so that          *)
(* lower(), "in" (substring), split() and the regular expression \b\w+\b   *)
(* are computed character by character.  Scores are integers in units of   *)
(* 1/Unit (1.0 is Unit); a quotient is rounded down to a whole unit.       *)
(***************************************************************************)
EXTENDS Integers, Sequences, FiniteSets, TLC

(***************************************************************************)
(* Strings                                                                 *)
(***************************************************************************)
UpperCase ==
  <<"A", "B", "C", "D", "E", "F", "G", "H", "I", "J", "K", "L", "M",
    "N", "O", "P", "Q", "R", "S", "T", "U", "V", "W", "X", "Y", "Z">>

LowerCase ==
  <<"a", "b", "c", "d", "e", "f", "g", "h", "i", "j", "k", "l", "m",
    "n", "o", "p", "q", "r", "s", "t", "u", "v", "w", "x", "y", "z">>

Digits == {"0", "1", "2", "3", "4", "5", "6", "7", "8", "9"}

\* str.lower() on one character
LowerChar(c) ==
  IF \E i \in DOMAIN UpperCase : UpperCase[i] = c
  THEN LowerCase[CHOOSE i \in DOMAIN UpperCase : UpperCase[i] = c]
  ELSE c

\* str.lower()
Lower(s) == [i \in DOMAIN s |-> LowerChar(s[i])]

\* a character the regular expression class \w matches
IsWordChar(c) ==
  \/ \E i \in DOMAIN LowerCase : LowerCase[i] = c
  \/ \E i \in DOMAIN UpperCase : UpperCase[i] = c
  \/ c \in Digits
  \/ c = "_"

\* Python's "sub in s" on strings
Contains(s, sub) ==
  \E i \in 0..(Len(s) - Len(sub)) : SubSeq(s, i + 1, i + Len(sub)) = sub

\* any(word in s for word in words)
AnyIn(words, s) == \E k \in DOMAIN words : Contains(s, words[k])

\* re.findall(r'\b\w+\b', s): the maximal runs of word characters, in order
RECURSIVE FindWords(_, _, _)
FindWords(s, i, cur) ==
  IF i > Len(s)
  THEN IF cur = <<>> THEN <<>> ELSE <<cur>>
  ELSE IF IsWordChar(s[i])
       THEN FindWords(s, i + 1, Append(cur, s[i]))
       ELSE IF cur = <<>>
            THEN FindWords(s, i + 1, <<>>)
            ELSE <<cur>> \o FindWords(s, i + 1, <<>>)

\* str.split(): the maximal runs of non-blank characters, in order
RECURSIVE SplitBlank(_, _, _)
SplitBlank(s, i, cur) ==
  IF i > Len(s)
  THEN IF cur = <<>> THEN <<>> ELSE <<cur>>
  ELSE IF s[i] # " "
       THEN SplitBlank(s, i + 1, Append(cur, s[i]))
       ELSE IF cur = <<>>
            THEN SplitBlank(s, i + 1, <<>>)
            ELSE <<cur>> \o SplitBlank(s, i + 1, <<>>)

Max(a, b) == IF a >= b THEN a ELSE b

Min(a, b) == IF a <= b THEN a ELSE b

(***************************************************************************)
(* rapidfuzz fuzz.partial_ratio, as the evaluation agent calls it          *)
(***************************************************************************)
\* one row of the longest-common-subsequence table: row[j + 1] is the LCS
\* length of the characters of a read so far and the first j of b
RECURSIVE LcsRow(_, _, _, _, _)
LcsRow(prev, ch, b, j, row) ==
  IF j > Len(b)
  THEN row
  ELSE LET cell == IF ch = b[j] THEN prev[j] + 1 ELSE Max(prev[j + 1], row[j])
       IN IF cell >= 0 THEN LcsRow(prev, ch, b, j + 1, Append(row, cell)) ELSE row

RECURSIVE LcsRows(_, _, _, _)
LcsRows(a, b, i, prev) ==
  IF i > Len(a)
  THEN prev[Len(b) + 1]
  ELSE LET row == LcsRow(prev, a[i], b, 1, <<0>>)
       IN IF Len(row) > 0 THEN LcsRows(a, b, i + 1, row) ELSE 0

Lcs(a, b) == LcsRows(a, b, 1, [j \in 1..(Len(b) + 1) |-> 0])

\* the score unit: 1.0 is Unit
Unit == 1000 * 1000

\* fuzz.ratio(a, b) / 100: the normalised indel similarity 2*LCS/(|a|+|b|)
FuzzRatio(a, b) ==
  IF Len(a) + Len(b) = 0 THEN Unit
  ELSE (2 * Lcs(a, b) * Unit) \div (Len(a) + Len(b))

\* the windows of the longer string the shorter one is aligned with: every
\* substring of the shorter one's length, and the shorter prefixes and suffixes
Windows(long, m) ==
  {SubSeq(long, i, i + m - 1) : i \in 1..(Len(long) - m + 1)}
    \cup {SubSeq(long, 1, k) : k \in 1..(m - 1)}
    \cup {SubSeq(long, Len(long) - k + 1, Len(long)) : k \in 1..(m - 1)}

SetMax(S) == CHOOSE x \in S : \A y \in S : y <= x

PartialOneWay(short, long) ==
  SetMax({FuzzRatio(short, w) : w \in Windows(long, Len(short))})

\* fuzz.partial_ratio(s1, s2) / 100
partial_ratio(s1, s2) ==
  IF Len(s1) = 0 /\ Len(s2) = 0 THEN Unit
  ELSE IF Len(s1) = 0 \/ Len(s2) = 0 THEN 0
  ELSE IF Len(s1) < Len(s2) THEN PartialOneWay(s1, s2)
  ELSE IF Len(s2) < Len(s1) THEN PartialOneWay(s2, s1)
  ELSE Max(PartialOneWay(s1, s2), PartialOneWay(s2, s1))

(***************************************************************************)
(* EvaluationAgent: configuration                                          *)
(***************************************************************************)
min_score_threshold == (4 * Unit) \div 10

max_results_per_category == 5

source_credibility ==
  << << <<"w", "i", "k", "i", "p", "e", "d", "i", "a">>, 1000000 >>,
     << <<"m", "d", "n">>, 950000 >>,
     << <<"o", "r", "a", "c", "l", "e">>, 900000 >>,
     << <<"t", "e", "n", "s", "o", "r", "f", "l", "o", "w">>, 900000 >>,
     << <<"p", "y", "t", "o", "r", "c", "h">>, 900000 >>,
     << <<"s", "c", "i", "k", "i", "t", "-", "l", "e", "a", "r", "n">>, 900000 >>,
     << <<"p", "a", "n", "d", "a", "s">>, 900000 >>,
     << <<"n", "u", "m", "p", "y">>, 900000 >>,
     << <<"s", "p", "r", "i", "n", "g">>, 900000 >>,
     << <<"d", "j", "a", "n", "g", "o">>, 900000 >>,
     << <<"f", "a", "s", "t", "a", "p", "i">>, 900000 >>,
     << <<"r", "e", "a", "c", "t">>, 900000 >>,
     << <<"n", "o", "d", "e", ".", "j", "s">>, 900000 >>,
     << <<"t", "u", "t", "o", "r", "i", "a", "l", "s", "p", "o", "i", "n", "t">>, 800000 >>,
     << <<"g", "e", "e", "k", "s", "f", "o", "r", "g", "e", "e", "k", "s">>, 800000 >>,
     << <<"w", "3", "s", "c", "h", "o", "o", "l", "s">>, 800000 >>,
     << <<"f", "r", "e", "e", "c", "o", "d", "e", "c", "a", "m", "p">>, 800000 >>,
     << <<"e", "d", "x">>, 850000 >>,
     << <<"c", "o", "u", "r", "s", "e", "r", "a">>, 850000 >>,
     << <<"y", "o", "u", "t", "u", "b", "e">>, 700000 >>,
     << <<"v", "i", "m", "e", "o">>, 700000 >>,
     << <<"h", "a", "s", "h", "n", "o", "d", "e">>, 750000 >>,
     << <<"d", "e", "v", ".", "t", "o">>, 750000 >>,
     << <<"m", "e", "d", "i", "u", "m">>, 700000 >>,
     << <<"p", "e", "r", "s", "o", "n", "a", "l", "_", "b", "l", "o", "g">>, 600000 >>,
     << <<"b", "l", "o", "g", "s", "p", "o", "t">>, 600000 >>,
     << <<"w", "o", "r", "d", "p", "r", "e", "s", "s">>, 600000 >>,
     << <<"t", "u", "m", "b", "l", "r">>, 500000 >> >>

beginner_keywords ==
  <<<<"b", "e", "g", "i", "n", "n", "e", "r">>,
    <<"b", "a", "s", "i", "c">>,
    <<"i", "n", "t", "r", "o">>,
    <<"i", "n", "t", "r", "o", "d", "u", "c", "t", "i", "o", "n">>,
    <<"g", "e", "t", "t", "i", "n", "g", " ", "s", "t", "a", "r", "t", "e", "d">>,
    <<"l", "e", "a", "r", "n">>,
    <<"t", "u", "t", "o", "r", "i", "a", "l">>,
    <<"g", "u", "i", "d", "e">>,
    <<"s", "i", "m", "p", "l", "e">>,
    <<"e", "a", "s", "y">>>>

intermediate_keywords ==
  <<<<"i", "n", "t", "e", "r", "m", "e", "d", "i", "a", "t", "e">>,
    <<"a", "d", "v", "a", "n", "c", "e", "d">>,
    <<"d", "e", "e", "p", " ", "d", "i", "v", "e">>,
    <<"c", "o", "m", "p", "r", "e", "h", "e", "n", "s", "i", "v", "e">>,
    <<"d", "e", "t", "a", "i", "l", "e", "d">>,
    <<"e", "x", "p", "e", "r", "t">>,
    <<"p", "r", "o", "f", "e", "s", "s", "i", "o", "n", "a", "l">>,
    <<"p", "r", "o", "d", "u", "c", "t", "i", "o", "n">>>>

advanced_keywords ==
  <<<<"a", "d", "v", "a", "n", "c", "e", "d">>,
    <<"e", "x", "p", "e", "r", "t">>,
    <<"m", "a", "s", "t", "e", "r">>,
    <<"p", "r", "o", "f", "e", "s", "s", "i", "o", "n", "a", "l">>,
    <<"p", "r", "o", "d", "u", "c", "t", "i", "o", "n">>,
    <<"e", "n", "t", "e", "r", "p", "r", "i", "s", "e">>,
    <<"o", "p", "t", "i", "m", "i", "z", "a", "t", "i", "o", "n">>,
    <<"p", "e", "r", "f", "o", "r", "m", "a", "n", "c", "e">>>>

beginner_bonus_words ==
  << <<"t", "u", "t", "o", "r", "i", "a", "l">>, <<"g", "u", "i", "d", "e">>, <<"l", "e", "a", "r", "n">>, <<"i", "n", "t", "r", "o">> >>

intermediate_bonus_words ==
  << <<"a", "d", "v", "a", "n", "c", "e", "d">>, <<"d", "e", "e", "p">>, <<"c", "o", "m", "p", "r", "e", "h", "e", "n", "s", "i", "v", "e">> >>

advanced_bonus_words ==
  << <<"e", "x", "p", "e", "r", "t">>, <<"m", "a", "s", "t", "e", "r">>, <<"p", "r", "o", "f", "e", "s", "s", "i", "o", "n", "a", "l">> >>

beginner_penalty_words ==
  << <<"e", "x", "p", "e", "r", "t">>, <<"a", "d", "v", "a", "n", "c", "e", "d">>, <<"m", "a", "s", "t", "e", "r">> >>

advanced_penalty_words ==
  << <<"b", "e", "g", "i", "n", "n", "e", "r">>, <<"i", "n", "t", "r", "o">>, <<"b", "a", "s", "i", "c">> >>

valid_levels ==
  << <<"b", "e", "g", "i", "n", "n", "e", "r">>, <<"i", "n", "t", "e", "r", "m", "e", "d", "i", "a", "t", "e">>, <<"a", "d", "v", "a", "n", "c", "e", "d">> >>

\* self.source_credibility.get(source, 0.5)
CredibilityOf(source) ==
  IF \E k \in DOMAIN source_credibility : source_credibility[k][1] = source
  THEN source_credibility[
         CHOOSE k \in DOMAIN source_credibility : source_credibility[k][1] = source][2]
  ELSE Unit \div 2

\* self.level_keywords.get(level_lower, [])
level_keywords(level_lower) ==
  IF level_lower = valid_levels[1] THEN beginner_keywords
  ELSE IF level_lower = valid_levels[2] THEN intermediate_keywords
  ELSE IF level_lower = valid_levels[3] THEN advanced_keywords
  ELSE <<>>

(***************************************************************************)
(* Candidate records: Python dicts.  A key the dict lacks is a field the   *)
(* record lacks.                                                           *)
(***************************************************************************)
\* resource.get(key, '')
Get(resource, key) == IF key \in DOMAIN resource THEN resource[key] ELSE <<>>

\* resource[key] = value
SetItem(resource, key, value) ==
  [k \in DOMAIN resource \cup {key} |-> IF k = key THEN value ELSE resource[k]]

(***************************************************************************)
(* EvaluationAgent: the three scores                                       *)
(***************************************************************************)
\* the title loop: 1.0 for a keyword that is the title or one of its
\* blank-separated words, 0.7 for a keyword found inside a word
RECURSIVE TitleScore(_, _, _)
TitleScore(keywords, title, k) ==
  IF k > Len(keywords) THEN 0
  ELSE (IF Contains(title, keywords[k])
        THEN IF \/ keywords[k] = title
                \/ Contains(<<" ">> \o title \o <<" ">>,
                            <<" ">> \o keywords[k] \o <<" ">>)
             THEN Unit
             ELSE (7 * Unit) \div 10
        ELSE 0) + TitleScore(keywords, title, k + 1)

\* the content loop: 0.5 for every keyword found in the snippet
RECURSIVE ContentScore(_, _, _)
ContentScore(keywords, raw_text, k) ==
  IF k > Len(keywords) THEN 0
  ELSE (IF Contains(raw_text, keywords[k]) THEN Unit \div 2 ELSE 0)
         + ContentScore(keywords, raw_text, k + 1)

calculate_relevance_score(resource, topic) ==
  LET title == Lower(Get(resource, "title"))
      raw_text == Lower(Get(resource, "raw_text"))
      topic_lower == Lower(topic)
      topic_keywords == FindWords(topic_lower, 1, <<>>)
      title_fuzzy == partial_ratio(topic_lower, title)
      content_fuzzy == partial_ratio(topic_lower, raw_text)
  IN IF Len(topic_keywords) = 0
     THEN 0      \* ZeroDivisionError, caught: return 0.0
     ELSE Min(((TitleScore(topic_keywords, title, 1) \div Len(topic_keywords)) * 6) \div 10
                + ((ContentScore(topic_keywords, raw_text, 1) \div Len(topic_keywords)) * 2) \div 10
                + title_fuzzy \div 10
                + content_fuzzy \div 10,
              Unit)

\* the number of the level's keywords found in the title or the snippet
RECURSIVE LevelIndicators(_, _, _, _)
LevelIndicators(keywords, title, raw_text, k) ==
  IF k > Len(keywords) THEN 0
  ELSE (IF Contains(title, keywords[k]) \/ Contains(raw_text, keywords[k])
        THEN 1 ELSE 0) + LevelIndicators(keywords, title, raw_text, k + 1)

LevelBonus(level_lower, title) ==
  IF level_lower = valid_levels[1]
  THEN IF AnyIn(beginner_bonus_words, title) THEN (2 * Unit) \div 10 ELSE 0
  ELSE IF level_lower = valid_levels[2]
  THEN IF AnyIn(intermediate_bonus_words, title) THEN (2 * Unit) \div 10 ELSE 0
  ELSE IF level_lower = valid_levels[3]
  THEN IF AnyIn(advanced_bonus_words, title) THEN (2 * Unit) \div 10 ELSE 0
  ELSE 0

\* the penalty left out when the bonus was given
LevelPenaltyUnlessBonus(level_lower, title) ==
  IF LevelBonus(level_lower, title) > 0 THEN 0
  ELSE IF level_lower = valid_levels[1]
  THEN IF AnyIn(beginner_penalty_words, title) THEN (3 * Unit) \div 10 ELSE 0
  ELSE IF level_lower = valid_levels[3]
  THEN IF AnyIn(advanced_penalty_words, title) THEN (3 * Unit) \div 10 ELSE 0
  ELSE 0

LevelPenalty(level_lower, title) ==
  IF level_lower = valid_levels[1]
  THEN IF AnyIn(beginner_penalty_words, title) THEN (3 * Unit) \div 10 ELSE 0
  ELSE IF level_lower = valid_levels[3]
  THEN IF AnyIn(advanced_penalty_words, title) THEN (3 * Unit) \div 10 ELSE 0
  ELSE 0

\* the depth score without its clamp
depth_score_unclamped(resource, level) ==
  LET title == Lower(Get(resource, "title"))
      raw_text == Lower(Get(resource, "raw_text"))
      level_lower == Lower(level)
      keywords == level_keywords(level_lower)
  IN (IF Len(keywords) > 0
      THEN (LevelIndicators(keywords, title, raw_text, 1) * Unit) \div Len(keywords)
      ELSE Unit \div 2)
       + LevelBonus(level_lower, title) - LevelPenalty(level_lower, title)

calculate_content_depth_score(resource, level) ==
  LET title == Lower(Get(resource, "title"))
      raw_text == Lower(Get(resource, "raw_text"))
      level_lower == Lower(level)
      keywords == level_keywords(level_lower)
      total_checks == Len(keywords)
      level_indicators == LevelIndicators(keywords, title, raw_text, 1)
      base_score == IF total_checks > 0
                    THEN (level_indicators * Unit) \div total_checks
                    ELSE Unit \div 2
  IN Max(0, Min(base_score + LevelBonus(level_lower, title)
                           - LevelPenalty(level_lower, title), Unit))

S_wikipedia_org == <<"w", "i", "k", "i", "p", "e", "d", "i", "a", ".", "o", "r", "g">>

S_github_com == <<"g", "i", "t", "h", "u", "b", ".", "c", "o", "m">>

S_stackoverflow_com == <<"s", "t", "a", "c", "k", "o", "v", "e", "r", "f", "l", "o", "w", ".", "c", "o", "m">>

S_docs_dot == <<"d", "o", "c", "s", ".">>

S_tutorial == <<"t", "u", "t", "o", "r", "i", "a", "l">>

calculate_credibility_score(resource) ==
  LET source == Lower(Get(resource, "source"))
      link == Lower(Get(resource, "link"))
      source_score == CredibilityOf(source)
  IN IF Contains(link, S_wikipedia_org) THEN Max(source_score, Unit)
     ELSE IF Contains(link, S_github_com) THEN Max(source_score, (8 * Unit) \div 10)
     ELSE IF Contains(link, S_stackoverflow_com) THEN Max(source_score, (8 * Unit) \div 10)
     ELSE IF Contains(link, S_docs_dot) THEN Max(source_score, (9 * Unit) \div 10)
     ELSE IF Contains(link, S_tutorial) THEN Max(source_score, (7 * Unit) \div 10)
     ELSE source_score

\* relevance * 0.4 + depth * 0.3 + credibility * 0.3
WeightedScore(relevance_score, content_depth_score, credibility_score) ==
  (relevance_score * 4 + content_depth_score * 3 + credibility_score * 3) \div 10

FinalScore(resource, topic, level) ==
  WeightedScore(calculate_relevance_score(resource, topic),
                calculate_content_depth_score(resource, level),
                calculate_credibility_score(resource))

\* round(final_score, 2), in hundredths; an exact tie (0.225) goes up here,
\* where the float of the source may lie just under the tie and go down
Round2(final_score) == (final_score + Unit \div 200) \div (Unit \div 100)

(***************************************************************************)
(* Inputs: the records the external sites hold, the topics and the levels  *)
(* a request names                                                         *)
(***************************************************************************)
wiki_py ==
  [type |-> "article",
   title |-> <<"P", "y", " ", "i", "n", "t", "r", "o">>,
   link |-> <<"h", "t", "t", "p", "s", ":", "/", "/", "e", "n", ".", "w", "i", "k", "i", "p", "e", "d", "i", "a", ".", "o", "r", "g", "/", "w", "i", "k", "i", "/", "P", "y">>,
   raw_text |-> <<"p", "y", " ", "b", "a", "s", "i", "c">>,
   source |-> <<"w", "i", "k", "i", "p", "e", "d", "i", "a">>]

devto_py ==
  [type |-> "article",
   title |-> <<"l", "e", "a", "r", "n", " ", "p", "y", " ", "q", "u", "i", "c", "k", "l", "y">>,
   link |-> <<"h", "t", "t", "p", "s", ":", "/", "/", "d", "e", "v", ".", "t", "o", "/", "p", "y">>,
   raw_text |-> <<"l", "e", "a", "r", "n", " ", "p", "y", " ", "q", "u", "i", "c", "k", "l", "y">>,
   source |-> <<"d", "e", "v", "t", "o">>]

docs_wiki ==
  [type |-> "docs",
   title |-> <<"P", "y", " ", "d", "o", "c", "s">>,
   link |-> <<"h", "t", "t", "p", "s", ":", "/", "/", "e", "n", ".", "w", "i", "k", "i", "p", "e", "d", "i", "a", ".", "o", "r", "g", "/", "w", "i", "k", "i", "/", "P", "y">>,
   raw_text |-> <<>>,
   source |-> <<"M", "D", "N">>]

docs_py ==
  [type |-> "docs",
   title |-> <<"E", "x", "p", "e", "r", "t", " ", "p", "y", "t", "h", "o", "n">>,
   link |-> <<"h", "t", "t", "p", "s", ":", "/", "/", "d", "o", "c", "s", ".", "p", "y", "t", "h", "o", "n", ".", "o", "r", "g", "/", "3", "/", "p", "y">>,
   raw_text |-> <<"a", "d", "v", "a", "n", "c", "e", "d">>,
   source |-> <<"P", "y", "t", "h", "o", "n">>]

w3_py ==
  [type |-> "tutorial",
   title |-> <<"P", "y", " ", "t", "u", "t", "o", "r", "i", "a", "l", " ", "f", "o", "r", " ", "b", "e", "g", "i", "n", "n", "e", "r", "s">>,
   link |-> <<"h", "t", "t", "p", "s", ":", "/", "/", "w", "w", "w", ".", "w", "3", "s", "c", "h", "o", "o", "l", "s", ".", "c", "o", "m", "/", "p", "y">>,
   raw_text |-> <<"e", "a", "s", "y">>,
   source |-> <<"W", "3", "S", "c", "h", "o", "o", "l", "s">>]

yt_pasta ==
  [type |-> "video",
   title |-> <<"C", "o", "o", "k", "i", "n", "g", " ", "p", "a", "s", "t", "a", " ", "a", "t", " ", "h", "o", "m", "e">>,
   link |-> <<"h", "t", "t", "p", "s", ":", "/", "/", "w", "w", "w", ".", "y", "o", "u", "t", "u", "b", "e", ".", "c", "o", "m", "/", "w", "a", "t", "c", "h", "?", "v", "=", "1">>,
   raw_text |-> <<>>,
   source |-> <<"y", "o", "u", "t", "u", "b", "e">>]

blog_py ==
  [type |-> "blog",
   title |-> <<"l", "e", "a", "r", "n", " ", "p", "y", " ", "q", "u", "i", "c", "k", "l", "y">>,
   link |-> <<"h", "t", "t", "p", "s", ":", "/", "/", "d", "e", "v", ".", "t", "o", "/", "p", "y">>,
   raw_text |-> <<"m", "y", " ", "p", "y", " ", "p", "o", "s", "t">>,
   source |-> <<"D", "e", "v", ".", "t", "o">>]

wiki_snake ==
  [type |-> "article",
   title |-> <<"S", "n", "a", "k", "e", " ", "i", "n", "t", "r", "o">>,
   link |-> <<"h", "t", "t", "p", "s", ":", "/", "/", "e", "n", ".", "w", "i", "k", "i", "p", "e", "d", "i", "a", ".", "o", "r", "g", "/", "w", "i", "k", "i", "/", "S", "n", "a", "k", "e">>,
   raw_text |-> <<>>,
   source |-> <<"w", "i", "k", "i", "p", "e", "d", "i", "a">>]

torch_py ==
  [type |-> "tutorial",
   title |-> <<"P", "y", "T", "o", "r", "c", "h">>,
   link |-> <<"h", "t", "t", "p", "s", ":", "/", "/", "x", ".", "i", "o", "/", "t">>,
   raw_text |-> <<"a", "d", "v", "a", "n", "c", "e", "d">>,
   source |-> <<"x">>]

docs_github ==
  [type |-> "docs",
   title |-> <<>>,
   link |-> <<"h", "t", "t", "p", "s", ":", "/", "/", "d", "o", "c", "s", ".", "g", "i", "t", "h", "u", "b", ".", "c", "o", "m", "/", "p", "y">>,
   raw_text |-> <<>>,
   source |-> <<"g", "i", "t", "h", "u", "b">>]

S_py == <<"p", "y">>

S_beginner == <<"b", "e", "g", "i", "n", "n", "e", "r">>

S_Advanced == <<"A", "d", "v", "a", "n", "c", "e", "d">>

S_expert == <<"e", "x", "p", "e", "r", "t">>

Topics == {<<>>, S_py}

Levels == {S_beginner, S_Advanced, S_expert}

SiteRecords ==
  {wiki_py, devto_py, docs_wiki, docs_py, w3_py, yt_pasta, blog_py,
   wiki_snake, torch_py, docs_github}

\* the sample_resources of example_usage.py
sample_article ==
  [type |-> "article",
   title |-> <<"P", "y", "t", "h", "o", "n", " ", "P", "r", "o", "g", "r", "a", "m", "m", "i", "n", "g", " ", "f", "o", "r", " ", "B", "e", "g", "i", "n", "n", "e", "r", "s">>,
   link |-> <<"h", "t", "t", "p", "s", ":", "/", "/", "e", "x", "a", "m", "p", "l", "e", ".", "c", "o", "m", "/", "p", "y", "t", "h", "o", "n", "-", "b", "a", "s", "i", "c", "s">>,
   raw_text |-> <<"L", "e", "a", "r", "n", " ", "P", "y", "t", "h", "o", "n", " ", "p", "r", "o", "g", "r", "a", "m", "m", "i", "n", "g", " ", "f", "r", "o", "m", " ", "s", "c", "r", "a", "t", "c", "h", " ", "w", "i", "t", "h", " ", "t", "h", "i", "s", " ", "c", "o", "m", "p", "r", "e", "h", "e", "n", "s", "i", "v", "e", " ", "g", "u", "i", "d", "e">>,
   source |-> <<"w", "i", "k", "i", "p", "e", "d", "i", "a">>]

sample_tutorial ==
  [type |-> "tutorial",
   title |-> <<"A", "d", "v", "a", "n", "c", "e", "d", " ", "P", "y", "t", "h", "o", "n", " ", "T", "e", "c", "h", "n", "i", "q", "u", "e", "s">>,
   link |-> <<"h", "t", "t", "p", "s", ":", "/", "/", "e", "x", "a", "m", "p", "l", "e", ".", "c", "o", "m", "/", "a", "d", "v", "a", "n", "c", "e", "d", "-", "p", "y", "t", "h", "o", "n">>,
   raw_text |-> <<"M", "a", "s", "t", "e", "r", " ", "a", "d", "v", "a", "n", "c", "e", "d", " ", "P", "y", "t", "h", "o", "n", " ", "p", "r", "o", "g", "r", "a", "m", "m", "i", "n", "g", " ", "c", "o", "n", "c", "e", "p", "t", "s">>,
   source |-> <<"t", "u", "t", "o", "r", "i", "a", "l", "s", "p", "o", "i", "n", "t">>]

\* the first sample with a shorter snippet
sample_scratch ==
  [type |-> "article",
   title |-> <<"P", "y", "t", "h", "o", "n", " ", "P", "r", "o", "g", "r", "a", "m", "m", "i", "n", "g", " ", "f", "o", "r", " ", "B", "e", "g", "i", "n", "n", "e", "r", "s">>,
   link |-> <<"h", "t", "t", "p", "s", ":", "/", "/", "e", "x", "a", "m", "p", "l", "e", ".", "c", "o", "m", "/", "p", "y", "t", "h", "o", "n", "-", "b", "a", "s", "i", "c", "s">>,
   raw_text |-> <<"L", "e", "a", "r", "n", " ", "P", "y", "t", "h", "o", "n", " ", "f", "r", "o", "m", " ", "s", "c", "r", "a", "t", "c", "h">>,
   source |-> <<"w", "i", "k", "i", "p", "e", "d", "i", "a">>]

\* a title with level words of every level
sample_mixed ==
  [type |-> "tutorial",
   title |-> <<"M", "a", "s", "t", "e", "r", " ", "i", "n", "t", "r", "o", " ", "t", "o", " ", "a", "d", "v", "a", "n", "c", "e", "d", " ", "P", "y", "t", "h", "o", "n">>,
   link |-> <<"h", "t", "t", "p", "s", ":", "/", "/", "e", "x", "a", "m", "p", "l", "e", ".", "c", "o", "m", "/", "m", "i", "x", "e", "d">>,
   raw_text |-> <<>>,
   source |-> <<"t", "u", "t", "o", "r", "i", "a", "l", "s", "p", "o", "i", "n", "t">>]

S_Python_Programming == <<"P", "y", "t", "h", "o", "n", " ", "P", "r", "o", "g", "r", "a", "m", "m", "i", "n", "g">>

S_intermediate == <<"i", "n", "t", "e", "r", "m", "e", "d", "i", "a", "t", "e">>

S_advanced == <<"a", "d", "v", "a", "n", "c", "e", "d">>

SampleRecords == {sample_article, sample_tutorial, sample_scratch, sample_mixed}

SampleLevels == {S_beginner, S_intermediate, S_advanced}

\* the final scores of the site records, computed once
ScoreMemo ==
  [r \in SiteRecords, t \in Topics, l \in Levels |-> FinalScore(r, t, l)]

\* the relevance of the sample records for the topic of example_usage.py,
\* computed once
SampleRelevance ==
  [r \in SampleRecords |-> calculate_relevance_score(r, S_Python_Programming)]

\* the final scores of the sample records, computed once
SampleMemo ==
  [r \in SampleRecords, l \in SampleLevels |->
     WeightedScore(SampleRelevance[r], calculate_content_depth_score(r, l),
                   calculate_credibility_score(r))]

\* a record without one of its keys
Without(resource, key) == [k \in DOMAIN resource \ {key} |-> resource[k]]

\* final_score, looked up for a site record or a sample record and computed
\* for any other; none of the three scores reads resource['score']
FinalScoreOf(resource, topic, level) ==
  LET unscored == IF "score" \in DOMAIN resource
                  THEN Without(resource, "score")
                  ELSE resource
  IN IF unscored \in SiteRecords /\ topic \in Topics /\ level \in Levels
     THEN ScoreMemo[unscored, topic, level]
     ELSE IF /\ topic = S_Python_Programming
             /\ unscored \in SampleRecords /\ level \in SampleLevels
     THEN SampleMemo[unscored, level]
     ELSE FinalScore(resource, topic, level)

(***************************************************************************)
(* EvaluationAgent.evaluate                                                *)
(***************************************************************************)
\* an insertion that is not stable: the entry goes before its equals
RECURSIVE InsertBeforeTies(_, _)
InsertBeforeTies(sorted, x) ==
  IF sorted = <<>> THEN <<x>>
  ELSE IF Head(sorted).score > x.score
       THEN <<Head(sorted)>> \o InsertBeforeTies(Tail(sorted), x)
       ELSE <<x>> \o sorted

\* list.sort(key=lambda x: x['score'], reverse=True): a stable sort, so
\* entries of equal score keep their order
RECURSIVE InsertByScore(_, _)
InsertByScore(sorted, x) ==
  IF sorted = <<>> THEN <<x>>
  ELSE IF Head(sorted).score >= x.score
       THEN <<Head(sorted)>> \o InsertByScore(Tail(sorted), x)
       ELSE <<x>> \o sorted

\* the list left in the order it has
SortUnchanged(resources) == resources


RECURSIVE SortByScore(_)
SortByScore(resources) ==
  IF resources = <<>> THEN <<>>
  ELSE InsertByScore(SortByScore(SubSeq(resources, 1, Len(resources) - 1)),
                     resources[Len(resources)])

\* resource.get('type', 'unknown')
TypeOf(resource) == IF "type" \in DOMAIN resource THEN resource.type ELSE "unknown"

\* the keys of by_type, in insertion order: each type at its first resource
RECURSIVE TypeOrder(_, _)
TypeOrder(resources, seen) ==
  IF resources = <<>> THEN <<>>
  ELSE IF TypeOf(Head(resources)) \in seen
       THEN TypeOrder(Tail(resources), seen)
       ELSE <<TypeOf(Head(resources))>>
              \o TypeOrder(Tail(resources), seen \cup {TypeOf(Head(resources))})

\* by_type[resource_type]
OfType(resources, resource_type) ==
  SelectSeq(resources, LAMBDA r : TypeOf(r) = resource_type)

\* the whole group kept
TopOfTypeAll(type_resources) == SortByScore(type_resources)

\* the last entries of the sorted group kept, not the first
TopOfTypeLast(type_resources) ==
  SubSeq(SortByScore(type_resources),
         Max(1, Len(type_resources) - max_results_per_category + 1),
         Len(type_resources))

\* type_resources[:self.max_results_per_category]
TopOfType(type_resources) ==
  SubSeq(SortByScore(type_resources), 1,
         Min(Len(type_resources), max_results_per_category))

RECURSIVE TakeTop(_, _)
TakeTop(resources, types) ==
  IF types = <<>> THEN <<>>
  ELSE TopOfType(OfType(resources, Head(types))) \o TakeTop(resources, Tail(types))

filter_by_category(resources) ==
  SortByScore(TakeTop(resources, TypeOrder(resources, {})))

\* resource['score'] = round(final_score, 2)
Scored(resource, topic, level) ==
  SetItem(resource, "score", Round2(FinalScoreOf(resource, topic, level)))

\* every resource appended, whatever its score
AppendedAlways(resource, topic, level) == TRUE

\* final_score >= self.min_score_threshold: the resource is appended.  The
\* logger.debug line that follows reads resource['title']; the KeyError of
\* a resource that lacks the key is caught after the append and the loop goes on
Appended(resource, topic, level) ==
  FinalScoreOf(resource, topic, level) >= min_score_threshold

\* the for loop of evaluate: the input list with the scores written into
\* its records
ScoreAll(resources, topic, level) ==
  [k \in DOMAIN resources |-> Scored(resources[k], topic, level)]

\* the for loop of evaluate: evaluated_resources
RECURSIVE EvaluatedResources(_, _, _)
EvaluatedResources(resources, topic, level) ==
  IF resources = <<>> THEN <<>>
  ELSE (IF Appended(Head(resources), topic, level)
        THEN <<Scored(Head(resources), topic, level)>>
        ELSE <<>>) \o EvaluatedResources(Tail(resources), topic, level)

evaluate(resources, topic, level) ==
  filter_by_category(SortByScore(EvaluatedResources(resources, topic, level)))

(***************************************************************************)
(* The fetchers.  What the external sites answer is an input: every        *)
(* fetcher collects a list of records of the items its sites hold.         *)
(***************************************************************************)
\* the agents in the order scrape_resources lists their scrape calls
Agents == <<"articles", "docs", "tutorials", "videos", "blogs">>

Fetchers == DOMAIN Agents

\* the category each fetcher stamps on its records
AgentTypes == <<"article", "docs", "tutorial", "video", "blog">>

\* the most records the sub-searches of one scrape call collect
MaxRaw == 2

\* DocsAgent._scrape_doc_source keeps a link whose title holds a topic keyword
DocsRelevant(title, topic) ==
  AnyIn(SplitBlank(Lower(topic), 1, <<>>), Lower(title))

\* the records the sites of fetcher i can answer with
SiteItems(i, topic) ==
  IF i = 1 THEN {wiki_py, devto_py}
  ELSE IF i = 2 THEN {d \in {docs_wiki, docs_py} : DocsRelevant(d.title, topic)}
  ELSE IF i = 3 THEN {w3_py}
  ELSE IF i = 4 THEN {yt_pasta}
  ELSE {blog_py}

\* the lists the sub-searches of one scrape call can add up to
RawLists(i, topic) ==
  UNION {[1..n -> SiteItems(i, topic)] : n \in 0..MaxRaw}

\* "Remove duplicates based on URL": the first record of every link.  The
\* loop over resources, split in two halves: the second half is filtered
\* with the links of the first half added to seen_urls
RECURSIVE unique_resources(_, _)
unique_resources(resources, seen_urls) ==
  IF resources = <<>> THEN <<>>
  ELSE IF Len(resources) = 1
       THEN IF resources[1].link \in seen_urls THEN <<>> ELSE resources
       ELSE LET half == Len(resources) \div 2
            IN unique_resources(SubSeq(resources, 1, half), seen_urls)
                 \o unique_resources(
                      SubSeq(resources, half + 1, Len(resources)),
                      seen_urls \cup {resources[k].link : k \in 1..half})

(***************************************************************************)
(* The request handler scrape_resources                                    *)
(***************************************************************************)
\* the level check left out
LevelNotChecked(level) == TRUE

\* request.level.lower() in valid_levels
LevelIsValid(level) == \E k \in DOMAIN valid_levels : valid_levels[k] = Lower(level)

NoRequest == [topic |-> <<>>, level |-> <<>>]

NoResponse == [status |-> 0]

Pending == [kind |-> "pending"]

Returned(list) == [kind |-> "list", value |-> list]

Raised == [kind |-> "exc"]

\* the requests two clients of the service have in flight at once
Requests == {1, 2}

\* a request the service has not received yet
NotStarted ==
  [pc |-> "idle", request |-> NoRequest, task |-> [i \in Fetchers |-> "none"],
   task_result |-> [i \in Fetchers |-> <<>>],
   results |-> [i \in Fetchers |-> Pending], response |-> NoResponse]

\* a browser that has sent nothing yet: no 'learning_chat' in its session
\* cookie, no message routed, evaluate_answers never called
Absent == [present |-> FALSE]

NoCall == [called |-> FALSE]

FreshClient ==
  [learning_chat |-> Absent, routed |-> "none", message |-> <<>>,
   evaluate_answers |-> NoCall]

VARIABLES
  pc,             \* where the handler is: "idle", "gather" (awaiting), "done"
  request,        \* the ScrapeRequest
  session,        \* per agent: whether self.session is set
  task,           \* per fetcher task: "none", "running", "returned", "raised"
  task_result,    \* per fetcher task: what its scrape call returned
  search_errors,  \* per fetcher task: a sub-search failed or timed out (logged)
  results,        \* the result list asyncio.gather builds
  all_resources,  \* the merge buffer, as the merge filled it
  response,       \* the HTTP response
  collected,      \* per fetcher task: the records the sub-searches that
                  \* answered collected, one per link
  evaluated_input, \* the list evaluate was given, as the call left it
  runs,           \* per concurrent request: the handler's locals (pc, request,
                  \* task, task_result, results, response)
  chat            \* the chat app's client: session['learning_chat'], the
                  \* handler the last message went to, the last call of
                  \* evaluate_answers

vars ==
  <<pc, request, session, task, task_result, search_errors, results,
    all_resources, response, collected, evaluated_input, runs, chat>>

Init ==
  /\ pc = "idle"
  /\ request = NoRequest
  /\ session = [i \in Fetchers |-> FALSE]
  /\ task = [i \in Fetchers |-> "none"]
  /\ task_result = [i \in Fetchers |-> <<>>]
  /\ search_errors = [i \in Fetchers |-> FALSE]
  /\ results = [i \in Fetchers |-> Pending]
  /\ all_resources = <<>>
  /\ response = NoResponse
  /\ collected = [i \in Fetchers |-> <<>>]
  /\ evaluated_input = <<>>
  /\ runs = [r \in Requests |-> NotStarted]
  /\ chat = FreshClient

\* raise HTTPException(status_code=400, detail="Invalid level. ...")
InvalidLevel == [kind |-> "raise", status |-> 400, detail |-> "Invalid level"]

\* except Exception as e: raise HTTPException(status_code=500, ...).
\* HTTPException is an Exception, so the handler's own 400 is caught too
ExceptException(outcome) ==
  IF outcome.kind = "raise"
  THEN [status |-> 500, detail |-> "Internal server error"]
  ELSE outcome.response

\* the handler up to its await: the level check and the five scrape calls
Receive(topic, level) ==
  /\ pc = "idle"
  /\ request' = [topic |-> topic, level |-> level]
  /\ IF LevelIsValid(level)
     THEN /\ task' = [i \in Fetchers |-> "running"]
          /\ pc' = "gather"
          /\ response' = response
     ELSE /\ task' = task
          /\ pc' = "done"
          /\ response' = ExceptException(InvalidLevel)
  /\ UNCHANGED <<runs, chat,
                 session, task_result, search_errors, results, all_resources,
                 collected, evaluated_input>>

\* the outcomes kept in the order the tasks complete in
GatherStoreAsCompleted(res, i, outcome) ==
  [res EXCEPT ![CHOOSE p \in DOMAIN res :
                  /\ res[p] = [kind |-> "pending"]
                  /\ \A q \in 1..(p - 1) : res[q] # [kind |-> "pending"]] = outcome]

\* asyncio.gather keeps each task's outcome at the task's own position
GatherStore(res, i, outcome) == [res EXCEPT ![i] = outcome]

\* the sub-searches without a handler of their own: the exception of one
\* ends the loop of scrape, whose handler returns []
sub_search_except_off == FALSE

\* every sub-search ends "except Exception as e: logger.error(...)" and
\* returns [] after it
sub_search_except == TRUE

\* what scrape returns when the sub-searches that answered collected raw
\* and (failed) one sub-search raised on its network call or its parsing
ScrapeResult(raw, failed) ==
  IF failed /\ ~sub_search_except THEN <<>> ELSE unique_resources(raw, {})

\* a scrape call runs to its return: the records its sub-searches collected,
\* without the duplicates; a sub-search that failed or timed out added none
ScrapeReturn(i) ==
  /\ pc = "gather"
  /\ task[i] = "running"
  /\ \E raw \in RawLists(i, request.topic), failed \in BOOLEAN :
       /\ collected' = [collected EXCEPT ![i] = unique_resources(raw, {})]
       /\ task_result' = [task_result EXCEPT ![i] = ScrapeResult(raw, failed)]
       /\ search_errors' = [search_errors EXCEPT ![i] = failed]
       /\ results' = GatherStore(results, i, Returned(ScrapeResult(raw, failed)))
  /\ session' = [session EXCEPT ![i] = TRUE]
  /\ task' = [task EXCEPT ![i] = "returned"]
  /\ UNCHANGED <<runs, chat,
                 pc, request, all_resources, response, evaluated_input>>

\* an exception inside scrape's try block: logged, return []
ScrapeCaught(i) ==
  /\ pc = "gather"
  /\ task[i] = "running"
  /\ session' = [session EXCEPT ![i] = TRUE]
  /\ task' = [task EXCEPT ![i] = "returned"]
  /\ task_result' = [task_result EXCEPT ![i] = <<>>]
  /\ results' = GatherStore(results, i, Returned(<<>>))
  /\ UNCHANGED <<runs, chat,
                 pc, request, search_errors, all_resources, response,
                 collected, evaluated_input>>

\* an exception leaves the scrape call (raised outside its try block or
\* while its handler runs): the task ends with the exception
ScrapeRaise(i) ==
  /\ pc = "gather"
  /\ task[i] = "running"
  /\ session' = [session EXCEPT ![i] = TRUE]
  /\ task' = [task EXCEPT ![i] = "raised"]
  /\ results' = GatherStore(results, i, Raised)
  /\ UNCHANGED <<runs, chat,
                 pc, request, task_result, search_errors, all_resources,
                 response, collected, evaluated_input>>

\* gather without return_exceptions
return_exceptions_off == FALSE

\* gather(*tasks, return_exceptions=True)
return_exceptions == TRUE

Resolved(i) == task[i] \in {"returned", "raised"}

\* the await ends with the first task that resolves
GatherFirstCompleted == \E i \in Fetchers : Resolved(i)

\* the await of gather ends: every task has resolved, or, without
\* return_exceptions, a task has raised
GatherDone ==
  \/ \A i \in Fetchers : Resolved(i)
  \/ ~return_exceptions /\ \E i \in Fetchers : task[i] = "raised"

\* the exception gather propagates
GatherRaises == ~return_exceptions /\ \E i \in Fetchers : task[i] = "raised"

\* for i, result in enumerate(results): an exception is logged and
\* skipped, a list extends all_resources
RECURSIVE CombineResults(_, _)
CombineResults(res, i) ==
  IF i > Len(res) THEN <<>>
  ELSE (IF res[i].kind = "list" THEN res[i].value ELSE <<>>)
         \o CombineResults(res, i + 1)

\* Resource(type=resource["type"], title=resource["title"], ...)
ResponseFields == {"type", "title", "link", "score"}

FormatResponse(evaluated_resources) ==
  IF \A k \in DOMAIN evaluated_resources :
       ResponseFields \subseteq DOMAIN evaluated_resources[k]
  THEN [kind |-> "return",
        response |->
          [status |-> 200,
           resources |->
             [k \in DOMAIN evaluated_resources |->
                [type |-> evaluated_resources[k].type,
                 title |-> evaluated_resources[k].title,
                 link |-> evaluated_resources[k].link,
                 score |-> evaluated_resources[k].score]]]]
  ELSE [kind |-> "raise", status |-> 500, detail |-> "KeyError"]

\* an empty result answered as "not found"
RespondNotFoundWhenEmpty(resources, topic, level) ==
  IF evaluate(resources, topic, level) = <<>>
  THEN [status |-> 404, detail |-> "No resources found"]
  ELSE ExceptException(FormatResponse(evaluate(resources, topic, level)))

\* the handler from "Evaluate and filter resources" to its return
Respond(resources, topic, level) ==
  ExceptException(FormatResponse(evaluate(resources, topic, level)))

\* the handler after the await of gather: merge, evaluate, respond
Aggregate ==
  /\ pc = "gather"
  /\ GatherDone
  /\ IF GatherRaises
     THEN /\ all_resources' = all_resources
          /\ evaluated_input' = evaluated_input
          /\ response' = ExceptException([kind |-> "raise", status |-> 500,
                                          detail |-> "fetcher"])
     ELSE /\ all_resources' = CombineResults(results, 1)
          /\ evaluated_input' = ScoreAll(CombineResults(results, 1),
                                         request.topic, request.level)
          /\ response' = Respond(CombineResults(results, 1),
                                 request.topic, request.level)
  /\ pc' = "done"
  /\ UNCHANGED <<runs, chat,
                 request, session, task, task_result, search_errors, results,
                 collected>>

Next ==
  \/ \E topic \in Topics, level \in Levels : Receive(topic, level)
  \/ \E i \in Fetchers : ScrapeReturn(i)
  \/ \E i \in Fetchers : ScrapeCaught(i)
  \/ \E i \in Fetchers : ScrapeRaise(i)
  \/ Aggregate

Spec == Init /\ [][Next]_vars

(***************************************************************************)
(* evaluate called on a list of candidate records that need not come from  *)
(* the fetchers (as example_usage.py calls it), and its result formatted   *)
(* as scrape_resources formats it                                          *)
(***************************************************************************)
\* the most candidates one call is given
MaxCandidates == 2

Candidates ==
  {wiki_py, yt_pasta, w3_py, torch_py, docs_github,
   Without(wiki_py, "title"), Without(yt_pasta, "title"),
   Without(wiki_py, "link"), Without(w3_py, "type")}

CandidateLists == UNION {[1..n -> Candidates] : n \in 0..MaxCandidates}

InitEval ==
  /\ pc = "evaluate"
  /\ request \in {r \in [topic : Topics, level : Levels] : LevelIsValid(r.level)}
  /\ all_resources \in CandidateLists
  /\ session = [i \in Fetchers |-> FALSE]
  /\ task = [i \in Fetchers |-> "none"]
  /\ task_result = [i \in Fetchers |-> <<>>]
  /\ search_errors = [i \in Fetchers |-> FALSE]
  /\ results = [i \in Fetchers |-> Pending]
  /\ response = NoResponse
  /\ collected = [i \in Fetchers |-> <<>>]
  /\ evaluated_input = <<>>
  /\ runs = [r \in Requests |-> NotStarted]
  /\ chat = FreshClient

EvaluateAndRespond ==
  /\ pc = "evaluate"
  /\ evaluated_input' = ScoreAll(all_resources, request.topic, request.level)
  /\ response' = Respond(all_resources, request.topic, request.level)
  /\ pc' = "done"
  /\ UNCHANGED <<runs, chat,
                 request, session, task, task_result, search_errors, results,
                 all_resources, collected>>

NextEval == EvaluateAndRespond

SpecEval == InitEval /\ [][NextEval]_vars

(***************************************************************************)
(* One scrape call with its sub-searches: what each sub-search keeps of    *)
(* the items its site answers with                                         *)
(***************************************************************************)
\* the most items a site answers one search with
MaxAnswered == 11

\* a sub-search that returns found[:limit]
Sliced(limit) == [sliced |-> TRUE, limit |-> limit]

\* _search_wikipedia: it asks the site for srlimit items and returns every
\* item of the answer
Unsliced(srlimit) == [sliced |-> FALSE, limit |-> srlimit]

\* the sub-searches of one query, in the order scrape calls them (for the
\* docs agent: the two sources of a topic that names no known technology)
SubSearches(i) ==
  IF i = 1 THEN <<Unsliced(5), Sliced(5), Sliced(5)>>
  ELSE IF i = 2 THEN <<Sliced(10), Sliced(10)>>
  ELSE IF i = 3 THEN <<Sliced(5), Sliced(5), Sliced(5), Sliced(5)>>
  ELSE IF i = 4 THEN <<Sliced(10), Sliced(5), Sliced(5), Sliced(5)>>
  ELSE <<Sliced(5), Sliced(5), Sliced(5), Sliced(5)>>

\* len(search_queries); the docs agent loops over its sources only
SearchQueries(i) == IF i = 2 THEN 1 ELSE 4

\* the record sub-search s builds of the k-th item its site answers query q
\* with
FoundItem(i, q, s, k) ==
  [type |-> AgentTypes[i], title |-> <<>>, link |-> <<q, s, k>>,
   raw_text |-> <<>>, source |-> <<>>]

\* what sub-search s returns when its site answers query q with n items
SubSearchReturn(i, q, s, n) ==
  IF SubSearches(i)[s].sliced
  THEN [k \in 1..Min(n, SubSearches(i)[s].limit) |-> FoundItem(i, q, s, k)]
  ELSE [k \in 1..n |-> FoundItem(i, q, s, k)]

\* resources.extend(...) for the sub-searches s.. of one query
RECURSIVE QueryResources(_, _, _, _)
QueryResources(i, answered, q, s) ==
  IF s > Len(SubSearches(i)) THEN <<>>
  ELSE SubSearchReturn(i, q, s, answered[s])
         \o QueryResources(i, answered, q, s + 1)

\* for query in search_queries: a site answers every query with as many
\* items, other ones for each query
RECURSIVE AllQueries(_, _, _)
AllQueries(i, answered, q) ==
  IF q > SearchQueries(i) THEN <<>>
  ELSE QueryResources(i, answered, q, 1) \o AllQueries(i, answered, q + 1)

InitScrape ==
  /\ pc = "gather"
  /\ request = [topic |-> S_py, level |-> S_beginner]
  /\ session = [i \in Fetchers |-> FALSE]
  /\ \E i \in Fetchers :
       task = [j \in Fetchers |-> IF j = i THEN "running" ELSE "none"]
  /\ task_result = [i \in Fetchers |-> <<>>]
  /\ search_errors = [i \in Fetchers |-> FALSE]
  /\ results = [i \in Fetchers |-> Pending]
  /\ all_resources = <<>>
  /\ response = NoResponse
  /\ collected = [i \in Fetchers |-> <<>>]
  /\ evaluated_input = <<>>
  /\ runs = [r \in Requests |-> NotStarted]
  /\ chat = FreshClient

\* a scrape call runs to its return, every site having answered
ScrapeSites(i) ==
  /\ pc = "gather"
  /\ task[i] = "running"
  /\ \E answered \in [DOMAIN SubSearches(i) -> {0, 1, MaxAnswered}] :
       /\ collected' = [collected EXCEPT
                          ![i] = unique_resources(AllQueries(i, answered, 1), {})]
       /\ task_result' = [task_result EXCEPT
                            ![i] = unique_resources(AllQueries(i, answered, 1), {})]
       /\ results' = GatherStore(results, i,
                       Returned(unique_resources(AllQueries(i, answered, 1), {})))
  /\ session' = [session EXCEPT ![i] = TRUE]
  /\ task' = [task EXCEPT ![i] = "returned"]
  /\ UNCHANGED <<runs, chat,
                 pc, request, search_errors, all_resources, response,
                 evaluated_input>>

NextScrape == \E i \in Fetchers : ScrapeSites(i)

SpecScrape == InitScrape /\ [][NextScrape]_vars

(***************************************************************************)
(* evaluate called on longer lists of well-formed candidates, with any     *)
(* level string: the sort, the ties and the limit per category             *)
(***************************************************************************)
\* the most candidates one such call is given
MaxRanked == 6

RankPool == {wiki_py, wiki_snake, docs_wiki, yt_pasta}

RankLists == UNION {[1..n -> RankPool] : n \in 0..MaxRanked}

InitRank ==
  /\ pc = "evaluate"
  /\ request \in [topic : Topics, level : Levels]
  /\ all_resources \in RankLists
  /\ session = [i \in Fetchers |-> FALSE]
  /\ task = [i \in Fetchers |-> "none"]
  /\ task_result = [i \in Fetchers |-> <<>>]
  /\ search_errors = [i \in Fetchers |-> FALSE]
  /\ results = [i \in Fetchers |-> Pending]
  /\ response = NoResponse
  /\ collected = [i \in Fetchers |-> <<>>]
  /\ evaluated_input = <<>>
  /\ runs = [r \in Requests |-> NotStarted]
  /\ chat = FreshClient

\* example_usage.py: evaluated = await evaluation_agent.evaluate(...)
EvaluateRanked ==
  /\ pc = "evaluate"
  /\ evaluated_input' = ScoreAll(all_resources, request.topic, request.level)
  /\ response' = Respond(all_resources, request.topic, request.level)
  /\ pc' = "done"
  /\ UNCHANGED <<runs, chat,
                 request, session, task, task_result, search_errors, results,
                 all_resources, collected>>

NextRank == EvaluateRanked

SpecRank == InitRank /\ [][NextRank]_vars

(***************************************************************************)
(* Properties of the request handler                                       *)
(***************************************************************************)
\* the level names a request may carry, as the interface states them
KnownLevels ==
  {S_beginner, <<"i", "n", "t", "e", "r", "m", "e", "d", "i", "a", "t", "e">>, <<"a", "d", "v", "a", "n", "c", "e", "d">>}

\* the level, compared without regard to case, is one of the three
KnownLevel(level) == Lower(level) \in KnownLevels

\* the position of the fetcher that stamps a type
AgentOfType(type) == CHOOSE i \in Fetchers : AgentTypes[i] = type

\* what the tasks returned, in the order of registration; a task that has
\* raised adds nothing
RECURSIVE ReturnedInOrder(_)
ReturnedInOrder(i) ==
  IF i > Len(Agents) THEN <<>>
  ELSE (IF task[i] = "returned" THEN task_result[i] ELSE <<>>)
         \o ReturnedInOrder(i + 1)

Served == pc = "done" /\ KnownLevel(request.level)

\* C1: once the results of all fetchers are merged, the list handed to the
\* ranking step holds one record per link, the first one seen in
\* registration order and then discovery order, also when two fetchers
\* returned the same link.
C1_OnePerLink ==
  Served => all_resources = unique_resources(ReturnedInOrder(1), {})

\* C2: when a fetcher task ends with an exception the request does not
\* fail: the lists of the other fetchers are merged, ranked and returned,
\* and the failed fetcher adds nothing.
C2_FailedFetcherIsolated ==
  (Served /\ \E i \in Fetchers : task[i] = "raised") =>
     /\ response.status = 200
     /\ all_resources = ReturnedInOrder(1)
     /\ \A i \in Fetchers :
          task[i] = "raised" =>
            \A k \in DOMAIN all_resources : all_resources[k].type # AgentTypes[i]
     /\ response =
          ExceptException(FormatResponse(
            evaluate(all_resources, request.topic, request.level)))

C2_Witness ==
  /\ Served
  /\ \E i \in Fetchers : task[i] = "raised"
  /\ response.status = 200
  /\ response.resources # <<>>

\* C3: a fetcher one of whose network calls ran into its timeout counts as
\* failed and adds nothing to the merged list, and the request still
\* returns the results of the other fetchers.
C3_TimedOutAddsNothing ==
  Served =>
     /\ response.status = 200
     /\ \A i \in Fetchers :
          search_errors[i] =>
            \A k \in DOMAIN all_resources : all_resources[k].type # AgentTypes[i]

\* C4: the merge buffer is written only by the handler after its await, and
\* only once every one of the five fetcher tasks has returned or raised.
C4_MergeAfterAllResolved ==
  [][all_resources' # all_resources =>
       /\ pc = "gather" /\ pc' = "done"
       /\ \A i \in Fetchers : Resolved(i)]_vars

C4_Witness ==
  /\ pc = "done"
  /\ \A i \in Fetchers : Resolved(i)
  /\ Len(all_resources) >= 2

\* C5: whatever order the tasks complete in, the merged list is in
\* registration order (articles, docs, tutorials, videos, blogs) and holds
\* the records of one fetcher in the order the fetcher returned them; up
\* to the merge, what a task returned is held at the task's own position.
C5_RegistrationOrder ==
  /\ \A i \in Fetchers :
       task[i] = "returned" => results[i] = Returned(task_result[i])
  /\ Served =>
       /\ \A p, q \in DOMAIN all_resources :
            p < q => AgentOfType(all_resources[p].type)
                       <= AgentOfType(all_resources[q].type)
       /\ \A i \in Fetchers :
            task[i] = "returned" =>
              SelectSeq(all_resources, LAMBDA r : r.type = AgentTypes[i])
                = task_result[i]

C5_Witness ==
  /\ Served
  /\ Len(task_result[1]) = 2
  /\ task_result[2] # <<>>
  /\ task_result[5] # <<>>
  /\ Len(all_resources) >= 4

\* C6: for a request whose level is none of beginner, intermediate,
\* advanced (compared without regard to case), no scrape call is started.
C6_NoScrapeForUnknownLevel ==
  (pc # "idle" /\ ~KnownLevel(request.level)) =>
     \A i \in Fetchers : task[i] = "none" /\ ~session[i]

C6_Witness ==
  /\ pc = "done"
  /\ ~KnownLevel(request.level)
  /\ \A i \in Fetchers : task[i] = "none"

\* C7: a request with an unknown level is answered with status 400 and the
\* detail "Invalid level", not with an internal server error.
C7_UnknownLevelIs400 ==
  (pc = "done" /\ ~KnownLevel(request.level)) =>
     response.status = 400 /\ response.detail = "Invalid level"

\* C8: a request with the empty topic is rejected with a client error and
\* no scrape call is started for it (stated for the requests whose level is
\* valid, which nothing else rejects).
C8_EmptyTopicRejected ==
  (pc # "idle" /\ request.topic = <<>> /\ KnownLevel(request.level)) =>
     /\ \A i \in Fetchers : task[i] = "none"
     /\ pc = "done" => response.status \in 400..499

\* C9: when every fetcher fails or returns nothing, a request with a valid
\* level ends with a successful response whose resource list is empty.
C9_AllFailIsEmptySuccess ==
  (Served /\ \A i \in Fetchers : task[i] = "raised" \/ task_result[i] = <<>>) =>
     response.status = 200 /\ response.resources = <<>>

C9_Witness ==
  /\ Served
  /\ \E i \in Fetchers : task[i] = "raised"
  /\ \E i \in Fetchers : task[i] = "returned" /\ search_errors[i]
  /\ \A i \in Fetchers : task[i] = "raised" \/ task_result[i] = <<>>
  /\ response.status = 200

(***************************************************************************)
(* Properties of evaluate and of the response built from its result        *)
(***************************************************************************)
\* a record with the fields the response is built from
HasExpectedFields(resource) == {"type", "title", "link"} \subseteq DOMAIN resource

\* C10: a candidate that lacks its title, link or type is left out of the
\* result, the other candidates are scored and returned as if it had not
\* been in the input, and the request ends with a successful response.
C10_BadCandidateLeftOut ==
  pc = "done" =>
     /\ response.status = 200
     /\ response =
          ExceptException(FormatResponse(
            evaluate(SelectSeq(all_resources, HasExpectedFields),
                     request.topic, request.level)))

(***************************************************************************)
(* Properties of the ranking engine                                        *)
(***************************************************************************)
\* evaluate has returned and its list was formatted into the response
Ranked == pc = "done" /\ response.status = 200

\* the entry of the response a scored record is formatted as
IsEntryOf(entry, resource) ==
  \A f \in ResponseFields : f \in DOMAIN resource /\ entry[f] = resource[f]

\* a is b with some of its elements left out
RECURSIVE IsSubsequence(_, _)
IsSubsequence(a, b) ==
  IF a = <<>> THEN TRUE
  ELSE IF b = <<>> THEN FALSE
  ELSE IF Head(a) = Head(b) THEN IsSubsequence(Tail(a), Tail(b))
  ELSE IsSubsequence(a, Tail(b))

\* the list in the opposite order
Reversed(list) == [k \in DOMAIN list |-> list[Len(list) + 1 - k]]

\* the two lists hold the same elements the same number of times
SameElements(a, b) ==
  \A x \in {a[k] : k \in DOMAIN a} \cup {b[k] : k \in DOMAIN b} :
     Len(SelectSeq(a, LAMBDA y : y = x)) = Len(SelectSeq(b, LAMBDA y : y = x))

\* C11: after evaluate has returned, the list it was given holds the same
\* records in the same order, each with exactly the fields and values it
\* had before the call.
C11_InputUnchanged ==
  pc = "done" => evaluated_input = all_resources

\* C12: the list evaluate returns is sorted by score, highest first: of
\* two adjacent entries the first has the score of the second or more.
C12_SortedByScore ==
  Ranked =>
     \A k \in 1..(Len(response.resources) - 1) :
        response.resources[k].score >= response.resources[k + 1].score

\* C12 witness: two candidates given in ascending order of score are both
\* returned.
C12_Witness ==
  /\ Ranked
  /\ Len(response.resources) >= 2
  /\ \E k \in 1..(Len(evaluated_input) - 1) :
       /\ evaluated_input[k].score >= 40
       /\ evaluated_input[k].score < evaluated_input[k + 1].score

\* C13: returned entries of equal score stand in the order their
\* candidates had in the input list, whatever their categories.
C13_TiesInDiscoveryOrder ==
  Ranked =>
     \A j \in DOMAIN response.resources :
        IsSubsequence(
          SelectSeq(response.resources,
                    LAMBDA e : e.score = response.resources[j].score),
          [k \in DOMAIN evaluated_input |->
             [f \in ResponseFields |-> evaluated_input[k][f]]])

\* C14: the list evaluate returns holds at most 5 entries of any one type.
C14_AtMostFivePerCategory ==
  Ranked =>
     \A j \in DOMAIN response.resources :
        Len(SelectSeq(response.resources,
                      LAMBDA e : e.type = response.resources[j].type)) <= 5

\* C14 witness: more than 5 candidates of one type pass the threshold and
\* 5 of that type are returned.
C14_Witness ==
  /\ Ranked
  /\ \E t \in {AgentTypes[i] : i \in Fetchers} :
       /\ Len(SelectSeq(evaluated_input,
                        LAMBDA r : r.type = t /\ r.score >= 40)) > 5
       /\ Len(SelectSeq(response.resources, LAMBDA e : e.type = t)) = 5

\* C15: no entry of the list evaluate returns has a score below 0.4.
C15_NoneBelowThreshold ==
  Ranked => \A j \in DOMAIN response.resources : response.resources[j].score >= 40

\* C15 witness: a candidate that scored below 0.4 was given together with
\* one that is returned.
C15_Witness ==
  /\ Ranked
  /\ response.resources # <<>>
  /\ \E k \in DOMAIN evaluated_input : evaluated_input[k].score < 40

\* C16: the relevance, depth, credibility and final scores of every
\* candidate lie between 0 and 1, for every topic and level.
C16_ScoresInUnitRange ==
  pc = "done" =>
     \A k \in DOMAIN all_resources :
        /\ calculate_relevance_score(all_resources[k], request.topic) \in 0..Unit
        /\ calculate_content_depth_score(all_resources[k], request.level) \in 0..Unit
        /\ calculate_credibility_score(all_resources[k]) \in 0..Unit
        /\ FinalScore(all_resources[k], request.topic, request.level) \in 0..Unit
        /\ evaluated_input[k].score \in 0..100

\* C16 witness: a candidate with empty title and snippet was scored for
\* the empty topic.
C16_Witness ==
  /\ pc = "done"
  /\ request.topic = <<>>
  /\ \E k \in DOMAIN all_resources :
       /\ Get(all_resources[k], "title") = <<>>
       /\ Get(all_resources[k], "raw_text") = <<>>
       /\ "score" \in DOMAIN evaluated_input[k]

\* C17: the threshold is applied to the reported, rounded score: a
\* candidate is returned exactly when its reported score is 0.40 or more.
C17_ThresholdOnReportedScore ==
  Ranked =>
     \A k \in DOMAIN evaluated_input :
        (evaluated_input[k].score >= 40) <=>
           \E j \in DOMAIN response.resources :
              IsEntryOf(response.resources[j], evaluated_input[k])

\* C18: the credibility score is at least the table value of the source
\* and at least the floor of every pattern the link contains.
C18_EveryLinkFloorApplies ==
  pc = "done" =>
     \A k \in DOMAIN all_resources :
        LET link == Lower(Get(all_resources[k], "link"))
            credibility == calculate_credibility_score(all_resources[k])
        IN /\ credibility >= CredibilityOf(Lower(Get(all_resources[k], "source")))
           /\ Contains(link, S_wikipedia_org) => credibility >= Unit
           /\ Contains(link, S_github_com) => credibility >= (8 * Unit) \div 10
           /\ Contains(link, S_stackoverflow_com) => credibility >= (8 * Unit) \div 10
           /\ Contains(link, S_docs_dot) => credibility >= (9 * Unit) \div 10
           /\ Contains(link, S_tutorial) => credibility >= (7 * Unit) \div 10

\* C19: evaluate returns the same resources with the same scores when it
\* is given the same candidates in another order (here: the opposite one).
C19_OrderIndependent ==
  pc = "done" =>
     SameElements(evaluate(all_resources, request.topic, request.level),
                  evaluate(Reversed(all_resources), request.topic, request.level))

InReputationTable(source) ==
  \E k \in DOMAIN source_credibility : source_credibility[k][1] = source

\* the sum of the limits of the sub-searches s.. of one query, the limit of
\* a sub-search that does not slice being the number of items it asks for
RECURSIVE LimitsFrom(_, _)
LimitsFrom(i, s) ==
  IF s > Len(SubSearches(i)) THEN 0
  ELSE SubSearches(i)[s].limit + LimitsFrom(i, s + 1)

\* C21: the number of records one scrape call returns is bounded by a
\* fixed constant (the limits of its sub-searches, over all its queries),
\* whatever number of items the sites answer with.
C21_FetcherSelfLimits ==
  \A i \in Fetchers :
     task[i] = "returned" =>
        Len(task_result[i]) <= SearchQueries(i) * LimitsFrom(i, 1)

\* C22: the source name of every record a fetcher returns is, lower-cased,
\* a key of the reputation table of the ranking engine.
C22_SourceNamesResolve ==
  \A i \in Fetchers :
     \A k \in DOMAIN task_result[i] :
        InReputationTable(Lower(task_result[i][k].source))

(***************************************************************************)
(* Two requests in flight at once.  The agents are module-level objects,   *)
(* so both handlers call the same five fetchers and the same evaluation    *)
(* agent; tasks, results, all_resources and response are locals of each    *)
(* call of scrape_resources, resources a local of each call of scrape.     *)
(* The only attribute the calls share is each fetcher's self.session.      *)
(***************************************************************************)
\* the level each client asks for: a valid one or "expert"
TwoLevels(r) == IF r = 1 THEN {S_beginner, S_expert} ELSE {S_Advanced, S_expert}

\* what the sites answer to the queries of request r (the queries hold the
\* level, so the two requests are answered differently)
SiteAnswers(r, i) ==
  IF i = 1 THEN (IF r = 1 THEN <<wiki_py>> ELSE <<devto_py, wiki_snake>>)
  ELSE IF i = 2 THEN (IF r = 1 THEN <<docs_wiki>> ELSE <<docs_py>>)
  ELSE IF i = 3 THEN (IF r = 1 THEN <<w3_py>> ELSE <<torch_py>>)
  ELSE IF i = 4 THEN <<yt_pasta>>
  ELSE (IF r = 1 THEN <<blog_py>> ELSE <<>>)

\* one results list for all the requests: the outcome of a task written
\* into the list of every request
TwoStoreShared(rs, r, i, outcome) ==
  [q \in DOMAIN rs |->
     [rs[q] EXCEPT !.results = GatherStore(@, i, outcome)]]

\* results is a local of the handler: gather of request r fills its own
TwoStore(rs, r, i, outcome) ==
  [rs EXCEPT ![r].results = GatherStore(@, i, outcome)]

\* scrape_resources of request r up to its await
TwoReceive(r, level) ==
  /\ runs[r].pc = "idle"
  /\ runs' = [runs EXCEPT
       ![r] = IF LevelIsValid(level)
              THEN [@ EXCEPT !.request = [topic |-> S_py, level |-> level],
                             !.task = [i \in Fetchers |-> "running"],
                             !.pc = "gather"]
              ELSE [@ EXCEPT !.request = [topic |-> S_py, level |-> level],
                             !.pc = "done",
                             !.response = ExceptException(InvalidLevel)]]
  /\ UNCHANGED <<pc, request, session, task, task_result, search_errors,
                 results, all_resources, response, collected,
                 evaluated_input, chat>>

\* the scrape call of fetcher i for request r runs to its return
TwoScrapeReturn(r, i) ==
  /\ runs[r].pc = "gather"
  /\ runs[r].task[i] = "running"
  /\ runs' = [TwoStore(runs, r, i,
                Returned(unique_resources(SiteAnswers(r, i), {})))
              EXCEPT ![r].task[i] = "returned",
                     ![r].task_result[i] =
                        unique_resources(SiteAnswers(r, i), {})]
  /\ session' = [session EXCEPT ![i] = TRUE]
  /\ UNCHANGED <<pc, request, task, task_result, search_errors, results,
                 all_resources, response, collected, evaluated_input, chat>>

\* an exception leaves the scrape call of fetcher i for request r
TwoScrapeRaise(r, i) ==
  /\ runs[r].pc = "gather"
  /\ runs[r].task[i] = "running"
  /\ runs' = [TwoStore(runs, r, i, Raised) EXCEPT ![r].task[i] = "raised"]
  /\ session' = [session EXCEPT ![i] = TRUE]
  /\ UNCHANGED <<pc, request, task, task_result, search_errors, results,
                 all_resources, response, collected, evaluated_input, chat>>

\* scrape_resources of request r after its await: merge, evaluate, respond
TwoAggregate(r) ==
  /\ runs[r].pc = "gather"
  /\ \A i \in Fetchers : runs[r].task[i] \in {"returned", "raised"}
  /\ runs' = [runs EXCEPT
       ![r].response = Respond(CombineResults(runs[r].results, 1),
                               runs[r].request.topic, runs[r].request.level),
       ![r].pc = "done"]
  /\ UNCHANGED <<pc, request, session, task, task_result, search_errors,
                 results, all_resources, response, collected,
                 evaluated_input, chat>>

NextTwo ==
  \/ \E r \in Requests : \E level \in TwoLevels(r) : TwoReceive(r, level)
  \/ \E r \in Requests, i \in Fetchers : TwoScrapeReturn(r, i)
  \/ \E r \in Requests, i \in Fetchers : TwoScrapeRaise(r, i)
  \/ \E r \in Requests : TwoAggregate(r)

SpecTwo == Init /\ [][NextTwo]_vars

\* the records the fetch tasks request r started returned, in task order
RECURSIVE OwnCandidates(_, _)
OwnCandidates(r, i) ==
  IF i > Len(Agents) THEN <<>>
  ELSE (IF runs[r].task[i] = "returned" THEN runs[r].task_result[i] ELSE <<>>)
         \o OwnCandidates(r, i + 1)

\* request r holds what its own tasks produced, and its response is the
\* evaluation of exactly that
OwnResultsOnly(r) ==
  /\ \A i \in Fetchers :
       /\ runs[r].task[i] \in {"none", "running"} => runs[r].results[i] = Pending
       /\ runs[r].task[i] = "returned" =>
            /\ runs[r].results[i] = Returned(runs[r].task_result[i])
            /\ runs[r].task_result[i] = unique_resources(SiteAnswers(r, i), {})
       /\ runs[r].task[i] = "raised" => runs[r].results[i] = Raised
  /\ runs[r].pc = "done" =>
       IF LevelIsValid(runs[r].request.level)
       THEN /\ runs[r].response =
                 Respond(OwnCandidates(r, 1), runs[r].request.topic,
                         runs[r].request.level)
            /\ runs[r].response.status = 200
            /\ \A k \in DOMAIN runs[r].response.resources :
                 \E i \in Fetchers : \E j \in DOMAIN SiteAnswers(r, i) :
                   /\ runs[r].task[i] = "returned"
                   /\ SiteAnswers(r, i)[j].link = runs[r].response.resources[k].link
                   /\ SiteAnswers(r, i)[j].title = runs[r].response.resources[k].title
       ELSE runs[r].response.status = 500

\* a step of one request leaves the other request as it was
OtherRunUntouched ==
  \A r \in Requests :
    runs'[r] # runs[r] => \A q \in Requests \ {r} : runs'[q] = runs[q]

\* C23: two requests processed concurrently on the shared agents are
\* independent: each holds only the outcomes of the fetch tasks it started
\* and answers with the evaluation of exactly those candidates, a request
\* that fails (or whose fetch tasks fail) leaves the other one's tasks
\* running and its results and response as they were
C23_RunsIndependent ==
  /\ [](\A r \in Requests : OwnResultsOnly(r))
  /\ [][OtherRunUntouched]_vars

\* the second request answered, with records of its own tasks, while the
\* first one is still awaiting its fetch tasks, one of which has failed
C23_Witness ==
  /\ runs[1].pc = "gather"
  /\ \E i \in Fetchers : runs[1].task[i] = "raised"
  /\ \E i \in Fetchers : runs[1].task[i] = "returned"
  /\ runs[2].pc = "done" /\ runs[2].response.status = 200
  /\ runs[2].response.resources # <<>>
  /\ \A i \in Fetchers : runs[2].task[i] = "returned"

(***************************************************************************)
(* The evaluation test of example_usage.py: evaluate called on lists of    *)
(* sample records for the topic "Python Programming"                       *)
(***************************************************************************)
\* the most sample records one call is given
MaxSample == 3

SampleLists == UNION {[1..n -> SampleRecords] : n \in 0..MaxSample}

InitExample ==
  /\ pc = "evaluate"
  /\ request \in [topic : {S_Python_Programming}, level : SampleLevels]
  /\ all_resources \in SampleLists
  /\ session = [i \in Fetchers |-> FALSE]
  /\ task = [i \in Fetchers |-> "none"]
  /\ task_result = [i \in Fetchers |-> <<>>]
  /\ search_errors = [i \in Fetchers |-> FALSE]
  /\ results = [i \in Fetchers |-> Pending]
  /\ response = NoResponse
  /\ collected = [i \in Fetchers |-> <<>>]
  /\ evaluated_input = <<>>
  /\ runs = [r \in Requests |-> NotStarted]
  /\ chat = FreshClient

\* evaluated = await evaluation_agent.evaluate(sample_resources, topic, level)
EvaluateSample ==
  /\ pc = "evaluate"
  /\ evaluated_input' = ScoreAll(all_resources, request.topic, request.level)
  /\ response' = Respond(all_resources, request.topic, request.level)
  /\ pc' = "done"
  /\ UNCHANGED <<runs, chat, request, session, task, task_result,
                 search_errors, results, all_resources, collected>>

NextExample == EvaluateSample

SpecExample == InitExample /\ [][NextExample]_vars

(***************************************************************************)
(* Properties of the depth score                                           *)
(***************************************************************************)
\* C24: for topic 'Python Programming' and level 'beginner', the candidate
\* 'Python Programming for Beginners' with snippet 'Learn Python from
\* scratch' and source 'wikipedia' gets a depth score above 0.5 and is
\* retained in the output
C24_BeginnerExampleDepth ==
  (pc = "done" /\ request.level = S_beginner) =>
     \A k \in DOMAIN all_resources :
        all_resources[k] = sample_scratch =>
          /\ calculate_content_depth_score(all_resources[k], request.level)
               > Unit \div 2
          /\ \E j \in DOMAIN response.resources :
               response.resources[j].title = sample_scratch.title

\* the share of the keywords found in the title or the snippet
KeywordFraction(keywords, title, raw_text) ==
  (Cardinality({k \in DOMAIN keywords :
                  Contains(title, keywords[k]) \/ Contains(raw_text, keywords[k])})
     * Unit) \div Len(keywords)

\* the opposite-level words of a beginner request and of an advanced request
OppositeWords(level_lower) ==
  IF level_lower = S_beginner
  THEN <<<<"e", "x", "p", "e", "r", "t">>, <<"a", "d", "v", "a", "n", "c", "e", "d">>, <<"m", "a", "s", "t", "e", "r">>>>
  ELSE IF level_lower = S_advanced
  THEN <<<<"b", "e", "g", "i", "n", "n", "e", "r">>, <<"i", "n", "t", "r", "o">>, <<"b", "a", "s", "i", "c">>>>
  ELSE <<>>

\* the level-confirming words of a request
ConfirmingWords(level_lower) ==
  IF level_lower = S_beginner THEN beginner_bonus_words
  ELSE IF level_lower = S_intermediate THEN intermediate_bonus_words
  ELSE advanced_bonus_words

\* C26: the depth score is the fraction of the level's keywords found in
\* title or snippet, plus 0.2 if the title has a level-confirming word,
\* minus 0.3 if the title has an opposite-level word, clamped to [0,1];
\* bonus and penalty both apply when both match, and an intermediate
\* request is never penalised
C26_DepthFormula ==
  pc = "done" =>
     \A k \in DOMAIN all_resources :
        LET title == Lower(all_resources[k].title)
            raw_text == Lower(all_resources[k].raw_text)
            level_lower == Lower(request.level)
            bonus == IF AnyIn(ConfirmingWords(level_lower), title)
                     THEN (2 * Unit) \div 10 ELSE 0
            penalty == IF AnyIn(OppositeWords(level_lower), title)
                       THEN (3 * Unit) \div 10 ELSE 0
        IN /\ calculate_content_depth_score(all_resources[k], request.level)
                = Max(0, Min(Unit,
                    KeywordFraction(level_keywords(level_lower), title, raw_text)
                      + bonus - penalty))
           /\ level_lower = S_intermediate => penalty = 0

\* C26 witness: an advanced request scored a title with a confirming word
\* ('master') and an opposite-level word ('intro'): 2 of 8 keywords, plus
\* 0.2, minus 0.3
C26_Witness ==
  /\ pc = "done"
  /\ request.level = S_advanced
  /\ \E k \in DOMAIN all_resources :
       /\ all_resources[k] = sample_mixed
       /\ calculate_content_depth_score(sample_mixed, request.level)
            = (15 * Unit) \div 100

(***************************************************************************)
(* Properties of the limit per category                                    *)
(***************************************************************************)
\* the candidates of a category that passed the threshold, by their
\* position in the list evaluate was given
PassedOfType(t) ==
  {k \in DOMAIN all_resources :
     /\ all_resources[k].type = t
     /\ Appended(all_resources[k], request.topic, request.level)}

\* how many passed candidates of its category come before candidate k: the
\* ones of a higher reported score and the ones of the same score found earlier
Outranking(k) ==
  Cardinality({j \in PassedOfType(all_resources[k].type) :
                 \/ evaluated_input[j].score > evaluated_input[k].score
                 \/ evaluated_input[j].score = evaluated_input[k].score /\ j < k})

\* the passed candidates of a category the limit keeps
KeptOfType(t) == {k \in PassedOfType(t) : Outranking(k) < 5}

\* C25: within each category the retained entries are the top 5 by score:
\* the entries of a category are, best first, the passed candidates of the
\* category that fewer than 5 others outrank, so no cut candidate has a
\* strictly higher score than a retained one of its category, and of equal
\* scores at the cut the earlier-discovered candidate is kept
C25_TopFivePerCategory ==
  Ranked =>
     \A t \in {all_resources[k].type : k \in DOMAIN all_resources} :
        LET entries == SelectSeq(response.resources, LAMBDA e : e.type = t)
        IN /\ Len(entries) = Cardinality(KeptOfType(t))
           /\ \A k \in KeptOfType(t) :
                IsEntryOf(entries[Outranking(k) + 1], evaluated_input[k])
           /\ \A c \in PassedOfType(t) \ KeptOfType(t) :
                \A k \in KeptOfType(t) :
                   /\ evaluated_input[c].score <= evaluated_input[k].score
                   /\ evaluated_input[c].score = evaluated_input[k].score => k < c

\* C25 witness: six articles passed the threshold with the same score, the
\* one cut being another article than the five kept
C25_Witness ==
  /\ Ranked
  /\ \E c \in PassedOfType("article") \ KeptOfType("article") :
       \E k \in KeptOfType("article") :
          /\ evaluated_input[c].score = evaluated_input[k].score
          /\ all_resources[c] # all_resources[k]

(***************************************************************************)
(* evaluate applied to its own output                                      *)
(***************************************************************************)
\* C30: evaluate is idempotent on its own output: for the same topic and
\* level, evaluating the list evaluate returned gives the same entries with
\* the same scores in the same order (and so the same response)
C30_EvaluateIdempotent ==
  pc = "done" =>
     /\ evaluate(evaluate(all_resources, request.topic, request.level),
                 request.topic, request.level)
          = evaluate(all_resources, request.topic, request.level)
     /\ Respond(evaluate(all_resources, request.topic, request.level),
                request.topic, request.level) = response

\* C30 witness: evaluate dropped a candidate and returned entries of two
\* categories with the same score
C30_Witness ==
  /\ Ranked
  /\ Len(response.resources) < Len(all_resources)
  /\ \E p, q \in DOMAIN response.resources :
       /\ response.resources[p].type # response.resources[q].type
       /\ response.resources[p].score = response.resources[q].score

(***************************************************************************)
(* The chat service (src/app.py): the /chat and /chat/reset handlers and   *)
(* the quiz state they keep in session['learning_chat'].  The session is   *)
(* Flask's cookie session: session.permanent is set when a learning        *)
(* session starts, so the cookie is written again at the end of every      *)
(* request and holds chat_data as the handler left it, whether or not the  *)
(* handler came to its "session['learning_chat'] = chat_data".             *)
(***************************************************************************)
Whitespace == {" ", "\t", "\n"}

\* str.strip()
Strip(s) ==
  LET kept == {i \in DOMAIN s : s[i] \notin Whitespace}
  IN IF kept = {} THEN <<>>
     ELSE SubSeq(s, CHOOSE i \in kept : \A j \in kept : i <= j,
                    CHOOSE i \in kept : \A j \in kept : j <= i)

\* str.rstrip(chars)
RStrip(s, chars) ==
  LET kept == {i \in DOMAIN s : s[i] \notin chars}
  IN IF kept = {} THEN <<>>
     ELSE SubSeq(s, 1, CHOOSE i \in kept : \A j \in kept : j <= i)

\* str.upper() on one character
UpperChar(c) ==
  IF \E i \in DOMAIN LowerCase : LowerCase[i] = c
  THEN UpperCase[CHOOSE i \in DOMAIN LowerCase : LowerCase[i] = c]
  ELSE c

\* str.upper()
Upper(s) == [i \in DOMAIN s |-> UpperChar(s[i])]

\* str.find(sub) of a substring that is there: the first index, from 0
Find(s, sub) ==
  CHOOSE i \in 0..(Len(s) - Len(sub)) :
    /\ SubSeq(s, i + 1, i + Len(sub)) = sub
    /\ \A j \in 0..(i - 1) : SubSeq(s, j + 1, j + Len(sub)) # sub

\* str.endswith(suffix)
EndsWith(s, suffix) ==
  /\ Len(suffix) <= Len(s)
  /\ SubSeq(s, Len(s) - Len(suffix) + 1, Len(s)) = suffix

\* a Python value that is None, and one that is a string
None == [none |-> TRUE]

Str(s) == [str |-> s]

\* a JSON number where a string was asked for
Number(n) == [number |-> n]

learning_keywords ==
  <<<<"e", "x", "p", "l", "a", "i", "n">>,
    <<"t", "e", "a", "c", "h">>,
    <<"l", "e", "a", "r", "n">>,
    <<"u", "n", "d", "e", "r", "s", "t", "a", "n", "d">>,
    <<"h", "o", "w", " ", "d", "o", "e", "s">>,
    <<"w", "h", "a", "t", " ", "i", "s">>,
    <<"h", "e", "l", "p", " ", "m", "e", " ", "l", "e", "a", "r", "n">>,
    <<"i", " ", "w", "a", "n", "t", " ", "t", "o", " ", "l", "e", "a", "r", "n">>,
    <<"c", "a", "n", " ", "y", "o", "u", " ", "t", "e", "a", "c", "h">>,
    <<"s", "h", "o", "w", " ", "m", "e", " ", "h", "o", "w">>,
    <<"t", "u", "t", "o", "r", "i", "a", "l">>,
    <<"l", "e", "s", "s", "o", "n">>,
    <<"s", "t", "u", "d", "y">>,
    <<"e", "d", "u", "c", "a", "t", "i", "o", "n">>,
    <<"c", "o", "u", "r", "s", "e">>>>

\* chat_helpers.detect_learning_intent
detect_learning_intent(message) == AnyIn(learning_keywords, Lower(message))

S_mode_learning == <<"m", "o", "d", "e", "=", "l", "e", "a", "r", "n", "i", "n", "g">>

\* the (start_pattern, end_pattern) pairs of extract_topic_from_message
patterns ==
  <<<<<<"e", "x", "p", "l", "a", "i", "n", " ">>, <<>>>>,
    <<<<"t", "e", "a", "c", "h", " ", "m", "e", " ">>, <<>>>>,
    <<<<"w", "h", "a", "t", " ", "i", "s", " ">>, <<>>>>,
    <<<<"h", "o", "w", " ", "d", "o", "e", "s", " ">>, <<" ", "w", "o", "r", "k">>>>,
    <<<<"h", "e", "l", "p", " ", "m", "e", " ", "l", "e", "a", "r", "n", " ">>, <<>>>>,
    <<<<"i", " ", "w", "a", "n", "t", " ", "t", "o", " ", "l", "e", "a", "r", "n", " ">>, <<>>>>,
    <<<<"c", "a", "n", " ", "y", "o", "u", " ", "t", "e", "a", "c", "h", " ">>, <<>>>>,
    <<<<"s", "h", "o", "w", " ", "m", "e", " ", "h", "o", "w", " ">>, <<" ", "w", "o", "r", "k", "s">>>>>>

\* the part of the message after the pattern, without the pattern's ending
\* and without closing punctuation
TopicPart(message, start_pattern, end_pattern) ==
  LET start_idx == Find(Lower(message), start_pattern) + Len(start_pattern)
      topic_part == Strip(SubSeq(message, start_idx + 1, Len(message)))
      cut == IF end_pattern # <<>> /\ EndsWith(Lower(topic_part), end_pattern)
             THEN Strip(SubSeq(topic_part, 1, Len(topic_part) - Len(end_pattern)))
             ELSE topic_part
  IN Strip(RStrip(cut, {"?", "!", "."}))

\* the for loop of extract_topic_from_message, from pattern k on
RECURSIVE ExtractFrom(_, _)
ExtractFrom(message, k) ==
  IF k > Len(patterns) THEN Strip(message)
  ELSE IF /\ Contains(Lower(message), patterns[k][1])
          /\ TopicPart(message, patterns[k][1], patterns[k][2]) # <<>>
       THEN TopicPart(message, patterns[k][1], patterns[k][2])
       ELSE ExtractFrom(message, k + 1)

\* chat_helpers.extract_topic_from_message
extract_topic_from_message(message) == ExtractFrom(message, 1)

S_Beginner == <<"B", "e", "g", "i", "n", "n", "e", "r">>

S_Intermediate == <<"I", "n", "t", "e", "r", "m", "e", "d", "i", "a", "t", "e">>

\* the words _handle_level_response looks for, level by level
beginner_words == <<<<"b", "e", "g", "i", "n", "n", "e", "r">>, <<"b", "e", "g", "i", "n">>, <<"n", "e", "w">>>>

intermediate_words == <<<<"i", "n", "t", "e", "r", "m", "e", "d", "i", "a", "t", "e">>, <<"i", "n", "t", "e", "r">>, <<"s", "o", "m", "e">>>>

advanced_words == <<<<"a", "d", "v", "a", "n", "c", "e", "d">>, <<"e", "x", "p", "e", "r", "t">>, <<"s", "t", "r", "o", "n", "g">>>>

\* the level _handle_level_response reads in the message, None if it
\* finds no level word
ParseLevel(user_message) ==
  IF AnyIn(beginner_words, Lower(user_message)) THEN Str(S_Beginner)
  ELSE IF AnyIn(intermediate_words, Lower(user_message)) THEN Str(S_Intermediate)
  ELSE IF AnyIn(advanced_words, Lower(user_message)) THEN Str(S_Advanced)
  ELSE None

\* answer in ['A', 'B', 'C', 'D']
AnswerLetters == {<<"A">>, <<"B">>, <<"C">>, <<"D">>}

\* every answer accepted
AnyAnswer(answer) == TRUE

IsAnswer(answer) == answer \in AnswerLetters

\* a quiz question, by its "correct" entry: json.loads gives whatever the
\* model wrote there, and generate_quiz checks only that the key is present.
\* ("options" and "question" are read for the reply text only.)
QuestionPool ==
  {[correct |-> Str(<<"A">>)], [correct |-> Str(<<"b">>)], [correct |-> Number(1)]}

\* the most questions an answer of the Gemini API holds
MaxQuestions == 2

GeminiQuizzes == UNION {[1..n -> QuestionPool] : n \in 1..MaxQuestions}

\* chat_helpers._get_fallback_quiz: four questions, correct A, B, B, C
fallback_questions ==
  <<[correct |-> Str(<<"A">>)], [correct |-> Str(<<"B">>)],
    [correct |-> Str(<<"B">>)], [correct |-> Str(<<"C">>)]>>

\* what generate_quiz can return
Quizzes == GeminiQuizzes \cup {fallback_questions}

\* round(percentage, 1), in tenths of a percent
Percentage(correct_count, total) == (2000 * correct_count + total) \div (2 * total)

\* the recommendation of evaluate_answers
Recommendation(correct_count, total, level) ==
  IF correct_count * 100 >= 80 * total
  THEN IF Lower(level) \in {S_beginner, S_intermediate} THEN "advance" ELSE "stay"
  ELSE IF correct_count * 100 >= 60 * total THEN "stay"
  ELSE IF Lower(level) \in {S_intermediate, S_advanced} THEN "retreat" ELSE "stay"

\* chat_helpers.evaluate_answers: the dict it returns (score, total,
\* percentage, recommendation), or the AttributeError of
\* question['correct'].upper() on a "correct" that is no string
evaluate_answers(topic, level, questions, answers) ==
  IF Len(answers) # Len(questions)
  THEN [kind |-> "return",
        value |-> [score |-> 0, total |-> Len(questions), percentage |-> 0,
                   recommendation |-> "stay"]]
  ELSE IF \E i \in DOMAIN questions : "str" \notin DOMAIN questions[i].correct
  THEN [kind |-> "raise"]
  ELSE LET correct_count ==
             Cardinality({i \in DOMAIN questions :
                            Upper(answers[i]) = Upper(questions[i].correct.str)})
       IN [kind |-> "return",
           value |-> [score |-> correct_count, total |-> Len(questions),
                      percentage |-> Percentage(correct_count, Len(questions)),
                      recommendation |->
                        Recommendation(correct_count, Len(questions), level)]]

\* the session data chat() creates when the cookie holds none
InitialChat ==
  [topic |-> None, level |-> None, questions |-> <<>>, answers |-> <<>>,
   current_question_index |-> 0, evaluation |-> None, mode |-> "idle"]

\* a call of evaluate_answers, by the lengths of its lists
Called(questions, answers) ==
  [called |-> TRUE, questions |-> Len(questions), answers |-> Len(answers)]

\* what a handler leaves: the session data and the call of evaluate_answers
Handled(chat_data, call) == [learning_chat |-> chat_data, call |-> call]

\* the learning intent looked for before the mode
DispatchIntentFirst(mode, user_message) ==
  IF \/ detect_learning_intent(user_message)
     \/ Contains(Lower(user_message), S_mode_learning)
  THEN "_start_learning_mode"
  ELSE IF mode = "awaiting_level" THEN "_handle_level_response"
  ELSE IF mode = "quiz" THEN "_handle_quiz_response"
  ELSE "_handle_llm_mode"

\* chat(): "Handle different conversation states"
Dispatch(mode, user_message) ==
  IF mode = "awaiting_level" THEN "_handle_level_response"
  ELSE IF mode = "quiz" THEN "_handle_quiz_response"
  ELSE IF \/ detect_learning_intent(user_message)
          \/ Contains(Lower(user_message), S_mode_learning)
  THEN "_start_learning_mode"
  ELSE "_handle_llm_mode"

start_learning_mode(user_message, chat_data) ==
  Handled([chat_data EXCEPT
             !.topic = Str(extract_topic_from_message(user_message)),
             !.level = None, !.questions = <<>>, !.answers = <<>>,
             !.current_question_index = 0, !.evaluation = None,
             !.mode = "awaiting_level"],
          NoCall)

\* questions is what generate_quiz(topic, level) returns for this call.
\* The reply is built after the update: an exception there is caught and
\* leaves the update in place
handle_level_response(user_message, chat_data, questions) ==
  IF ParseLevel(user_message) = None \/ questions = <<>>
  THEN Handled(chat_data, NoCall)
  ELSE Handled([chat_data EXCEPT
                  !.level = ParseLevel(user_message),
                  !.questions = questions, !.answers = <<>>,
                  !.current_question_index = 0, !.mode = "quiz"],
               NoCall)

\* an exception of evaluate_answers is caught by the handler of
\* _complete_quiz before the evaluation and the mode are written
complete_quiz(chat_data) ==
  LET evaluation == evaluate_answers(chat_data.topic, chat_data.level.str,
                                     chat_data.questions, chat_data.answers)
  IN IF evaluation.kind = "raise"
     THEN Handled(chat_data, Called(chat_data.questions, chat_data.answers))
     ELSE Handled([chat_data EXCEPT !.evaluation = evaluation.value,
                                    !.mode = "completed"],
                  Called(chat_data.questions, chat_data.answers))

\* _handle_quiz_response, with _ask_next_question or _complete_quiz
handle_quiz_response(user_message, chat_data) ==
  IF ~IsAnswer(Upper(Strip(user_message)))
  THEN Handled(chat_data, NoCall)
  ELSE LET stored == [chat_data EXCEPT
                        !.answers = Append(@, Upper(Strip(user_message))),
                        !.current_question_index = @ + 1]
       IN IF stored.current_question_index >= Len(stored.questions)
          THEN complete_quiz(stored)
          ELSE Handled(stored, NoCall)

\* the messages a client sends
Messages ==
  {<<"e", "x", "p", "l", "a", "i", "n", " ", "p", "y">>,
   <<"M", "o", "d", "e", "=", "L", "e", "a", "r", "n", "i", "n", "g">>,
   <<"w", "h", "a", "t", " ", "i", "s", " ", "n", "e", "w", "?">>,
   <<"h", "i">>,
   <<"n", "e", "w">>,
   <<"E", "x", "p", "e", "r", "t">>,
   <<"s", "o", "m", "e">>,
   <<"a">>,
   <<" ", "B", " ">>,
   <<"E">>,
   <<" ">>}

\* the JSON bodies of the requests: with a message, or without the key
Bodies == {[message |-> msg] : msg \in Messages} \cup {[text |-> <<"h", "i">>]}

\* POST /chat with the JSON body data; questions is what generate_quiz
\* returns if the request comes to call it
Chat(data, questions) ==
  /\ chat' =
       IF "message" \notin DOMAIN data
       THEN [chat EXCEPT !.routed = "rejected", !.message = <<>>,
                         !.evaluate_answers = NoCall]
       ELSE IF Strip(data.message) = <<>>
       THEN [chat EXCEPT !.routed = "rejected", !.message = data.message,
                         !.evaluate_answers = NoCall]
       ELSE LET user_message == Strip(data.message)
                chat_data == IF chat.learning_chat = Absent
                             THEN InitialChat
                             ELSE chat.learning_chat
                handler == Dispatch(chat_data.mode, user_message)
                handled ==
                  IF handler = "_handle_level_response"
                  THEN handle_level_response(user_message, chat_data, questions)
                  ELSE IF handler = "_handle_quiz_response"
                  THEN handle_quiz_response(user_message, chat_data)
                  ELSE IF handler = "_start_learning_mode"
                  THEN start_learning_mode(user_message, chat_data)
                  ELSE Handled(chat_data, NoCall)
            IN [learning_chat |-> handled.learning_chat, routed |-> handler,
                message |-> data.message, evaluate_answers |-> handled.call]
  /\ UNCHANGED <<pc, request, session, task, task_result, search_errors,
                 results, all_resources, response, collected,
                 evaluated_input, runs>>

\* POST /chat/reset: session.pop('learning_chat', None)
ResetChat ==
  /\ chat' = [learning_chat |-> Absent, routed |-> "reset_chat",
              message |-> <<>>, evaluate_answers |-> NoCall]
  /\ UNCHANGED <<pc, request, session, task, task_result, search_errors,
                 results, all_resources, response, collected,
                 evaluated_input, runs>>

\* the request comes to call generate_quiz: it is routed to
\* _handle_level_response and names a level
GeneratesQuiz(data) ==
  /\ "message" \in DOMAIN data
  /\ chat.learning_chat # Absent
  /\ chat.learning_chat.mode = "awaiting_level"
  /\ ParseLevel(Strip(data.message)) # None

NextChat ==
  \/ \E data \in Bodies :
       \E questions \in IF GeneratesQuiz(data) THEN Quizzes ELSE {<<>>} :
          Chat(data, questions)
  \/ ResetChat

SpecChat == Init /\ [][NextChat]_vars

(***************************************************************************)
(* Properties of the chat session                                          *)
(***************************************************************************)
\* the mode of the session; a session without 'learning_chat' is given the
\* idle data by the next message
ModeOf(c) == IF c.learning_chat = Absent THEN "idle" ELSE c.learning_chat.mode

\* the trimmed, upper-cased message is none of A, B, C, D
NoAnswerLetter(message) ==
  Upper(Strip(message)) \notin {<<"A">>, <<"B">>, <<"C">>, <<"D">>}

\* the message holds no level word
NoLevelWord(message) ==
  ~AnyIn(beginner_words \o intermediate_words \o advanced_words, Lower(message))

\* the message asks to learn something
AsksToLearn(message) ==
  \/ AnyIn(learning_keywords, Lower(message))
  \/ Contains(Lower(message), S_mode_learning)

\* one request, as C27 allows it to change the mode
ChatModeStep ==
  IF chat'.routed = "reset_chat"
  THEN chat'.learning_chat = Absent /\ ModeOf(chat') = "idle"
  ELSE /\ ModeOf(chat) # ModeOf(chat') =>
            \/ /\ ModeOf(chat) \in {"idle", "completed"}
               /\ ModeOf(chat') = "awaiting_level"
               /\ chat'.routed = "_start_learning_mode"
               /\ AsksToLearn(chat'.message)
            \/ /\ ModeOf(chat) = "awaiting_level"
               /\ ModeOf(chat') = "quiz"
               /\ chat'.routed = "_handle_level_response"
               /\ ~NoLevelWord(chat'.message)
            \/ /\ ModeOf(chat) = "quiz"
               /\ ModeOf(chat') = "completed"
               /\ chat'.routed = "_handle_quiz_response"
               /\ ~NoAnswerLetter(chat'.message)
               /\ Len(chat'.learning_chat.answers)
                    = Len(chat.learning_chat.answers) + 1
               /\ Len(chat'.learning_chat.answers)
                    >= Len(chat'.learning_chat.questions)
       /\ ModeOf(chat) \in {"awaiting_level", "quiz"} =>
            chat'.routed \notin {"_handle_llm_mode", "_start_learning_mode"}

C28_QuizCounters ==
  /\ chat.learning_chat # Absent =>
       /\ Len(chat.learning_chat.answers)
            = chat.learning_chat.current_question_index
       /\ chat.learning_chat.mode = "quiz" =>
            chat.learning_chat.current_question_index
              < Len(chat.learning_chat.questions)
       /\ chat.learning_chat.mode = "completed" =>
            Len(chat.learning_chat.answers) = Len(chat.learning_chat.questions)
  /\ chat.evaluate_answers # NoCall =>
       chat.evaluate_answers.answers = chat.evaluate_answers.questions

\* a /chat request that C29 calls invalid for the mode it arrives in
InvalidInput ==
  /\ chat'.routed # "reset_chat"
  /\ \/ ModeOf(chat) = "quiz" /\ NoAnswerLetter(chat'.message)
     \/ ModeOf(chat) = "awaiting_level" /\ NoLevelWord(chat'.message)

\* C29: an invalid input leaves the session state unchanged: in quiz mode
\* a message that is not A, B, C or D after trim and upper-casing, in
\* awaiting_level mode a message without a level word, changes neither
\* mode, topic, level, questions, answers nor current_question_index
C29_InvalidInputFrame ==
  [][InvalidInput =>
       /\ chat'.learning_chat # Absent
       /\ \A f \in {"mode", "topic", "level", "questions", "answers",
                    "current_question_index"} :
             chat'.learning_chat[f] = chat.learning_chat[f]]_vars

\* C29 witness: a quiz with an answer stored has just been sent a message
\* that is no answer letter
C29_Witness ==
  /\ ModeOf(chat) = "quiz"
  /\ chat.routed = "_handle_quiz_response"
  /\ Strip(chat.message) # <<>>
  /\ NoAnswerLetter(chat.message)
  /\ chat.learning_chat.answers # <<>>

====
